---- MODULE Spec2Model ----
(***************************************************************************)
(* Snap engine, camera rotation animators and viewport of the web CAD      *)
(* editor, as state machines.                                              *)
(*                                                                         *)
(* Numbers are fixed-point integers:                                       *)
(*   world coordinates   : integer world units                             *)
(*   screen coordinates  : centi-pixels (1/100 px)                          *)
(*   zoom                : percent (100 = zoom 1.0)                         *)
(*   angles              : integer degrees                                  *)
(*   cos / sin           : thousandths                                      *)
(***************************************************************************)
EXTENDS Integers, Sequences, FiniteSets, TLC

(* ------------------------------ bounds -------------------------------- *)

\* largest number of objects on the fabric canvas
MaxObjs == 2

\* largest number of changes made to the canvas (add, remove, edit, hide)
MaxEdits == 3

\* largest number of camera events: rotations started, pans, zooms, fits
MaxEvents == 3

\* largest number of inputs handed to the editor's tools: tool switches, pointer
\* and key events
MaxInputs == 5

(* ------------------------- program constants -------------------------- *)

\* CONFIG.SNAP_THRESHOLD (screen px)
SNAP_THRESHOLD == 15

\* SnappingEngine.lastSnapHoldPx (screen px)
lastSnapHoldPx == 6

\* priorityBiasPx = 0.9 px, in centi-pixels
priorityBiasPx == 90

\* the 0.2 px score window of the nearer-candidate rule, in centi-pixels
nearScoreWindow == 20

\* the 0.35 px hysteresis score margin, in centi-pixels
holdScoreMargin == 35

\* tan(AXIS_SNAP_TOL_DEG) = tan(7 degrees), in thousandths
axisSnapTolTan == 123

(* ----------------------------- arithmetic ----------------------------- *)

\* F(v) with v computed once
Bind(v, F(_)) == CHOOSE y \in {F(x) : x \in {v}} : TRUE

Abs(n) == IF n < 0 THEN -n ELSE n

Min2(a, b) == IF a < b THEN a ELSE b

Max2(a, b) == IF a > b THEN a ELSE b

\* clamp(n, a, b) = Math.max(a, Math.min(b, n))
clamp(n, a, b) == Max2(a, Min2(b, n))

RECURSIVE SqrtSearch(_, _, _)
SqrtSearch(n, lo, hi) ==
  IF lo >= hi THEN lo
  ELSE LET mid == (lo + hi + 1) \div 2
       IN IF mid * mid <= n THEN SqrtSearch(n, mid, hi)
          ELSE SqrtSearch(n, lo, mid - 1)

\* Math.sqrt on fixed-point values: the integer part of the root
ISqrt(n) == SqrtSearch(n, 0, 46340)

\* Math.hypot(dx, dy)
Hypot(dx, dy) == ISqrt(dx * dx + dy * dy)

\* n / d rounded to the nearest integer, d > 0: the fixed-point value of a quotient
RoundDiv(n, d) == (2 * n + d) \div (2 * d)

\* cos of 0, 15, ..., 90 degrees in thousandths
CosQuarter == <<1000, 966, 866, 707, 500, 259, 0>>

\* JavaScript's % (the remainder takes the sign of the dividend)
JsMod(a, m) == IF a >= 0 THEN a % m ELSE -((-a) % m)

\* Math.cos of an angle in degrees (a multiple of 15), in thousandths
CosDeg(d) ==
  LET r == ((d % 360) + 360) % 360
  IN IF r <= 90 THEN CosQuarter[(r \div 15) + 1]
     ELSE IF r <= 180 THEN -CosQuarter[((180 - r) \div 15) + 1]
     ELSE IF r <= 270 THEN -CosQuarter[((r - 180) \div 15) + 1]
     ELSE CosQuarter[((360 - r) \div 15) + 1]

\* Math.sin of an angle in degrees (a multiple of 15), in thousandths
SinDeg(d) == CosDeg(d - 90)

\* normaliseAngleRad: wraps an angle into (-180, 180]
RECURSIVE normaliseAngle(_)
normaliseAngle(a) ==
  IF a <= -180 THEN normaliseAngle(a + 360)
  ELSE IF a > 180 THEN normaliseAngle(a - 360)
  ELSE a

(* ------------------------- viewport transform -------------------------- *)

\* canvas.viewportTransform [z cos, z sin, -z sin, z cos, e, f] kept by its
\* zoom magnitude z (percent), camera angle ang (degrees) and translation
\* e, f (centi-pixels)
IdentityVpt == [z |-> 100, ang |-> 0, e |-> 0, f |-> 0]

\* fabric.util.transformPoint(pt, vpt) for a world point
TransformPoint(pt, v) ==
  [x |-> ((v.z * (CosDeg(v.ang) * pt.x - SinDeg(v.ang) * pt.y)) \div 1000) + v.e,
   y |-> ((v.z * (SinDeg(v.ang) * pt.x + CosDeg(v.ang) * pt.y)) \div 1000) + v.f]

\* zoomFromVpt / getZoomFromVpt / getZoomMagnitude: hypot(vpt[0], vpt[1])
zoomFromVpt(v) == v.z

\* angleFromVpt: atan2(vpt[1], vpt[0]), in (-180, 180]
angleFromVpt(v) == normaliseAngle(v.ang)

\* distPx(a, b) on screen points, in centi-pixels
distPx(a, b) == Hypot(a.x - b.x, a.y - b.y)

(* --------------------------- canvas objects ---------------------------- *)

Pt(x, y) == [x |-> x, y |-> y]

\* the flags objectIsNonSnappable tests
GuideFlags ==
  {"isSheetGuide", "isPaper", "isPaperShadow", "isSheetLabel", "isInnerA4Frame",
   "isGrid", "isGridLine", "isPaperGrid", "isKeyReference", "isKeyReferenceHandle",
   "isReferenceDashedLine", "isToolPreview", "isEndpointMarker"}

\* a fabric object: (left, top) is its centre point, line ends x1..y2 and
\* polyline points are local coordinates, uid = 0 stands for no __uid yet
Obj(type, left, top, x1, y1, x2, y2, radius, points, pathOffset, flags) ==
  [type |-> type, left |-> left, top |-> top, scaleX |-> 1, scaleY |-> 1,
   x1 |-> x1, y1 |-> y1, x2 |-> x2, y2 |-> y2, radius |-> radius,
   points |-> points, pathOffset |-> pathOffset, path |-> <<>>,
   visible |-> TRUE, evented |-> TRUE, isOverlayReference |-> FALSE,
   flags |-> flags, uid |-> 0]

\* fabric.Line([-dx/2, -dy/2, dx/2, dy/2], {left: mid.x, top: mid.y}) of commitLine
LineObj(a, b) ==
  LET cx == (a.x + b.x) \div 2
      cy == (a.y + b.y) \div 2
  IN Obj("line", cx, cy, a.x - cx, a.y - cy, b.x - cx, b.y - cy, 0, <<>>, Pt(0, 0), {})

\* fabric.Circle({left: centre.x, top: centre.y, radius: r})
CircleObj(c, r) == Obj("circle", c.x, c.y, 0, 0, 0, 0, r, <<>>, Pt(0, 0), {})

\* fabric.Polyline(points) / fabric.Polygon(points): centre and pathOffset c
PolyObj(type, pts, c) == Obj(type, c.x, c.y, 0, 0, 0, 0, 0, pts, c, {})

\* objectIsNonSnappable(obj)
objectIsNonSnappable(o) ==
  \/ o.visible = FALSE
  \/ (o.evented = FALSE /\ ~o.isOverlayReference)
  \/ o.flags \cap GuideFlags # {}

\* obj.calcTransformMatrix() applied to a local point (no rotation, no skew)
ObjToWorld(o, p) == Pt(o.left + o.scaleX * p.x, o.top + o.scaleY * p.y)

(* ------------------------- candidate extraction ------------------------ *)

\* a snap candidate; kind "none" stands for null
NoCand == [x |-> 0, y |-> 0, kind |-> "none", srcId |-> 0]

Cand(p, kind, srcId) == [x |-> p.x, y |-> p.y, kind |-> kind, srcId |-> srcId]

\* the srcId "ix" of intersection candidates
IxId == -1

\* kindPriority without the order of the kinds
kindPriorityFlat(kind) == 0

\* kindPriority(kind)
kindPriority(kind) ==
  CASE kind \in {"end", "vertex"} -> 0
    [] kind = "intersection" -> 1
    [] kind = "half" -> 2
    [] kind = "quadrant" -> 3
    [] kind = "centre" -> 4
    [] kind = "perpendicular" -> 5
    [] kind = "parallel" -> 6
    [] kind = "tangent" -> 7
    [] kind = "extension" -> 8
    [] kind = "grid" -> 9
    [] OTHER -> 10

\* _pushUnique: eps = 1e-4 world units is below one world unit, so two
\* candidates are nearer than eps exactly when they coincide
pushUnique(ptsOut, p, kind, srcId) ==
  IF \E i \in 1..Len(ptsOut) :
       ptsOut[i].kind = kind /\ ptsOut[i].x = p.x /\ ptsOut[i].y = p.y
  THEN ptsOut
  ELSE Append(ptsOut, Cand(p, kind, srcId))

\* SnappingEngine.enableQuadrantSnap as set by the constructor
enableQuadrantSnap == TRUE

\* addLineCandidates(lineObj, ptsOut, segsOut)
addLineCandidates(o, id, acc) ==
  LET a == ObjToWorld(o, Pt(o.x1, o.y1))
      b == ObjToWorld(o, Pt(o.x2, o.y2))
      p1 == pushUnique(acc.pts, a, "end", id)
      p2 == pushUnique(p1, b, "end", id)
      p3 == pushUnique(p2, Pt((a.x + b.x) \div 2, (a.y + b.y) \div 2), "half", id)
  IN [acc EXCEPT !.pts = p3,
                 !.segs = Append(@, [a |-> a, b |-> b, srcId |-> id])]

\* addCircleCandidates(circleObj, circlesOut, ptsOut)
addCircleCandidates(o, id, acc) ==
  LET c == Pt(o.left, o.top)
      r == o.radius * Max2(Abs(o.scaleX), Abs(o.scaleY))
      p0 == pushUnique(acc.pts, c, "centre", id)
      q1 == pushUnique(p0, Pt(c.x + r, c.y), "quadrant", id)
      q2 == pushUnique(q1, Pt(c.x, c.y + r), "quadrant", id)
      q3 == pushUnique(q2, Pt(c.x - r, c.y), "quadrant", id)
      q4 == pushUnique(q3, Pt(c.x, c.y - r), "quadrant", id)
  IN [acc EXCEPT !.pts = IF enableQuadrantSnap /\ r > 0 THEN q4 ELSE p0,
                 !.circles = Append(@, [c |-> c, r |-> r, srcId |-> id])]

RECURSIVE PushVertices(_, _, _, _)
PushVertices(pts, worldPts, i, id) ==
  IF i > Len(worldPts) THEN pts
  ELSE PushVertices(pushUnique(pts, worldPts[i], "vertex", id), worldPts, i + 1, id)

RECURSIVE PushEdges(_, _, _, _, _)
PushEdges(acc, worldPts, i, segCount, id) ==
  IF i > segCount THEN acc
  ELSE LET a == worldPts[i]
           b == worldPts[(i % Len(worldPts)) + 1]
           mid == Pt((a.x + b.x) \div 2, (a.y + b.y) \div 2)
       IN PushEdges([acc EXCEPT !.pts = pushUnique(@, mid, "half", id),
                                !.segs = Append(@, [a |-> a, b |-> b, srcId |-> id])],
                    worldPts, i + 1, segCount, id)

\* addPolylineOrPolygonCandidates(polyObj, ptsOut, segsOut)
addPolylineOrPolygonCandidates(o, id, acc) ==
  LET worldPts == [i \in 1..Len(o.points) |->
                     ObjToWorld(o, Pt(o.points[i].x - o.pathOffset.x,
                                      o.points[i].y - o.pathOffset.y))]
      segCount == IF o.type = "polygon" THEN Len(worldPts) ELSE Len(worldPts) - 1
      withV == [acc EXCEPT !.pts = PushVertices(@, worldPts, 1, id)]
  IN PushEdges(withV, worldPts, 1, segCount, id)

\* the midpoint of the chord, which addArcPathCandidates falls back on when
\* computeSvgArcMidpoint returns null
chordMidpoint(p0, p1, r0, largeArcFlag, sweepFlag) ==
  IF Abs(r0) = 0 THEN <<>> ELSE <<Pt((p0.x + p1.x) \div 2, (p0.y + p1.y) \div 2)>>

\* computeSvgArcMidpoint(p0, p1, rx, ry, phi, largeArcFlag, sweepFlag) for a
\* circular arc (rx = ry = r0, phi = 0); <<>> stands for null.  With
\* (dx, dy) = 2 (x1p, y1p) and q = dx^2 + dy^2: the radius is raised to half
\* the chord when lambda > 1, the centre lies sign * coef * |(x1p, y1p)| off
\* the chord's midpoint along (dy, -dx), and the point at thetaMid lies one
\* radius off the centre along (-dy, dx) for sweepFlag 1, (dy, -dx) for 0.
\* The chord, the doubled radius r2 and the doubled offset h2 are in tenths
computeSvgArcMidpoint(p0, p1, r0, largeArcFlag, sweepFlag) ==
  LET dx == p0.x - p1.x
      dy == p0.y - p1.y
      q == dx * dx + dy * dy
      chord == ISqrt(100 * q)
      r2 == Max2(20 * Abs(r0), chord)
      sign == IF largeArcFlag = sweepFlag THEN -1 ELSE 1
      h2 == ISqrt(Max2(0, r2 * r2 - 100 * q))
      k == (IF sweepFlag = 1 THEN r2 ELSE -r2) - sign * h2
  IN IF Abs(r0) = 0 \/ q = 0 THEN <<>>
     ELSE <<Pt(RoundDiv((p0.x + p1.x) * chord - dy * k, 2 * chord),
               RoundDiv((p0.y + p1.y) * chord + dx * k, 2 * chord))>>

\* the last "A" command of a path, <<>> when it has none
RECURSIVE LastArcCommand(_, _)
LastArcCommand(cmds, i) ==
  IF i < 1 THEN <<>>
  ELSE IF cmds[i][1] = "A" THEN cmds[i]
  ELSE LastArcCommand(cmds, i - 1)

\* whether addArcPathCandidates gets past its early returns (the paths on
\* the canvas are the arcs ArcTool commits, objectType "arc")
IsArcPath(o) ==
  /\ o.type = "path"
  /\ Len(o.path) >= 2
  /\ o.path[1][1] = "M"
  /\ LastArcCommand(o.path, Len(o.path)) # <<>>

\* addArcPathCandidates(pathObj, ptsOut)
addArcPathCandidates(o, id, acc) ==
  LET first == o.path[1]
      lastA == LastArcCommand(o.path, Len(o.path))
      startLocal == Pt(first[2] - o.pathOffset.x, first[3] - o.pathOffset.y)
      endLocal == Pt(lastA[7] - o.pathOffset.x, lastA[8] - o.pathOffset.y)
      aW == ObjToWorld(o, startLocal)
      bW == ObjToWorld(o, endLocal)
      midLocal == computeSvgArcMidpoint(startLocal, endLocal, lastA[2], lastA[5], lastA[6])
      midW == IF midLocal # <<>> THEN ObjToWorld(o, midLocal[1])
              ELSE Pt((aW.x + bW.x) \div 2, (aW.y + bW.y) \div 2)
      p1 == pushUnique(acc.pts, aW, "end", id)
      p2 == pushUnique(p1, bW, "end", id)
  IN [acc EXCEPT !.pts = pushUnique(p2, midW, "half", id)]

\* the types getCandidatesSegmentsCirclesWorld extracts from
ExtractedTypes == {"line", "circle", "polygon", "polyline", "path"}

\* whether the extractor reaches the "obj.__uid || (obj.__uid = ...)" of an object
GetsUid(o) ==
  /\ ~objectIsNonSnappable(o)
  /\ o.type \in ExtractedTypes
  /\ ~(o.type \in {"polygon", "polyline"} /\ Len(o.points) = 0)
  /\ (o.type = "path" => IsArcPath(o))

\* `o${Math.random().toString(36).slice(2)}`: a uid no object on the canvas has
FreshUid(os) == CHOOSE n \in 1..(Len(os) + 1) : \A i \in 1..Len(os) : os[i].uid # n

\* getCandidatesSegmentsCirclesWorld, object i onward; acc carries the
\* outputs and the objects (uids are written into them)
RECURSIVE ExtractFrom(_, _)
ExtractFrom(acc, i) ==
  IF i > Len(acc.objs) THEN acc
  ELSE LET o == acc.objs[i]
       IN IF ~GetsUid(o) THEN ExtractFrom(acc, i + 1)
          ELSE LET id == IF o.uid # 0 THEN o.uid ELSE FreshUid(acc.objs)
                   acc1 == [acc EXCEPT !.objs[i].uid = id]
                   acc2 == CASE o.type = "line" -> addLineCandidates(o, id, acc1)
                             [] o.type = "circle" -> addCircleCandidates(o, id, acc1)
                             [] o.type = "path" -> addArcPathCandidates(o, id, acc1)
                             [] OTHER -> addPolylineOrPolygonCandidates(o, id, acc1)
               IN ExtractFrom(acc2, i + 1)

getCandidatesSegmentsCirclesWorld(objects) ==
  ExtractFrom([pts |-> <<>>, segs |-> <<>>, circles |-> <<>>, objs |-> objects], 1)

\* one object's part of the cache key
ObjKey(o) ==
  <<o.type, o.left, o.top, o.scaleX, o.scaleY>> \o
  (CASE o.type = "line" -> <<"L", o.x1, o.y1, o.x2, o.y2>>
     [] o.type = "circle" -> <<"C", o.radius>>
     [] o.type \in {"polyline", "polygon"} ->
          <<"P", Len(o.points), o.pathOffset.x, o.pathOffset.y>> \o
          (IF Len(o.points) > 0
           THEN LET a == o.points[1]
                    b == o.points[(Len(o.points) \div 2) + 1]
                    c == o.points[Len(o.points)]
                IN <<a.x, a.y, b.x, b.y, c.x, c.y>>
           ELSE <<>>)
     [] o.type = "path" ->
          <<"S", Len(o.path)>> \o
          (IF Len(o.path) > 0 THEN o.path[Len(o.path)] ELSE <<>>)
     [] OTHER -> <<>>)

RECURSIVE KeyFrom(_, _)
KeyFrom(objects, i) ==
  IF i > Len(objects) THEN <<>>
  ELSE (IF objectIsNonSnappable(objects[i]) THEN <<>> ELSE <<ObjKey(objects[i])>>)
       \o KeyFrom(objects, i + 1)

\* SnappingEngine._buildCacheKey
buildCacheKey(objects) == <<Len(objects)>> \o KeyFrom(objects, 1)

EmptyCache == [pts |-> <<>>, segs |-> <<>>, circles |-> <<>>]

(* -------------------------- geometry primitives ------------------------ *)

\* aabbIntersects(a, b)
aabbIntersects(a, b) ==
  ~(a.maxX < b.minX \/ a.minX > b.maxX \/ a.maxY < b.minY \/ a.minY > b.maxY)

\* lineIntersection without the test of t and u against [0, 1]: the crossing
\* of the two unbounded lines
lineIntersectionUnbounded(a, b, c, d) ==
  LET rx == b.x - a.x
      ry == b.y - a.y
      sx == d.x - c.x
      sy == d.y - c.y
      rxs == rx * sy - ry * sx
      tn == (c.x - a.x) * sy - (c.y - a.y) * sx
      sg == IF rxs < 0 THEN -1 ELSE 1
  IN IF rxs = 0 THEN <<>>
     ELSE <<Pt(a.x + RoundDiv(sg * tn * rx, sg * rxs),
               a.y + RoundDiv(sg * tn * ry, sg * rxs))>>

\* lineIntersection(a, b, c, d): <<>> stands for null, <<p>> for a point
lineIntersection(a, b, c, d) ==
  LET rx == b.x - a.x
      ry == b.y - a.y
      sx == d.x - c.x
      sy == d.y - c.y
      rxs == rx * sy - ry * sx
      qx == c.x - a.x
      qy == c.y - a.y
      tn == qx * sy - qy * sx
      un == qx * ry - qy * rx
      sg == IF rxs < 0 THEN -1 ELSE 1
  IN IF rxs = 0 THEN <<>>
     ELSE IF sg * tn < 0 \/ sg * tn > sg * rxs \/ sg * un < 0 \/ sg * un > sg * rxs
          THEN <<>>
          ELSE <<Pt(a.x + RoundDiv(sg * tn * rx, sg * rxs),
                    a.y + RoundDiv(sg * tn * ry, sg * rxs))>>

\* lineCircleIntersections without the test Math.abs(t2 - t1) > 1e-8
lineCircleBothRoots(a, b, c, r) ==
  LET dx == b.x - a.x
      dy == b.y - a.y
      fx == a.x - c.x
      fy == a.y - c.y
      A == dx * dx + dy * dy
      B == 2 * (fx * dx + fy * dy)
      C == fx * fx + fy * fy - r * r
      disc == B * B - 4 * A * C
      sd == ISqrt(disc)
      n1 == -B - sd
      n2 == -B + sd
      at(n) == Pt(a.x + RoundDiv(n * dx, 2 * A), a.y + RoundDiv(n * dy, 2 * A))
  IN IF disc < 0 \/ A = 0 THEN <<>>
     ELSE (IF n1 >= 0 /\ n1 <= 2 * A THEN <<at(n1)>> ELSE <<>>) \o
          (IF n2 >= 0 /\ n2 <= 2 * A THEN <<at(n2)>> ELSE <<>>)

\* lineCircleIntersections(a, b, c, r): t1 = (-B - sd) / 2A, t2 = (-B + sd) / 2A
lineCircleIntersections(a, b, c, r) ==
  LET dx == b.x - a.x
      dy == b.y - a.y
      fx == a.x - c.x
      fy == a.y - c.y
      A == dx * dx + dy * dy
      B == 2 * (fx * dx + fy * dy)
      C == fx * fx + fy * fy - r * r
      disc == B * B - 4 * A * C
      sd == ISqrt(disc)
      n1 == -B - sd
      n2 == -B + sd
      at(n) == Pt(a.x + RoundDiv(n * dx, 2 * A), a.y + RoundDiv(n * dy, 2 * A))
  IN IF disc < 0 \/ A = 0 THEN <<>>
     ELSE (IF n1 >= 0 /\ n1 <= 2 * A THEN <<at(n1)>> ELSE <<>>) \o
          (IF n2 >= 0 /\ n2 <= 2 * A /\ n2 # n1 THEN <<at(n2)>> ELSE <<>>)

\* circleCircleIntersections without the tests of d against r0 + r1 and
\* |r0 - r1| and without the merge of two coinciding points
circleCircleBothPoints(c0, r0, c1, r1) ==
  LET dx == c1.x - c0.x
      dy == c1.y - c0.y
      D2 == dx * dx + dy * dy
      K == r0 * r0 - r1 * r1 + D2
      Q == ISqrt(Max2(0, 4 * D2 * r0 * r0 - K * K))
  IN IF D2 = 0 THEN <<>>
     ELSE <<Pt(c0.x + RoundDiv(K * dx - dy * Q, 2 * D2),
               c0.y + RoundDiv(K * dy + dx * Q, 2 * D2)),
            Pt(c0.x + RoundDiv(K * dx + dy * Q, 2 * D2),
               c0.y + RoundDiv(K * dy - dx * Q, 2 * D2))>>

\* circleCircleIntersections(c0, r0, c1, r1); with K = r0^2 - r1^2 + d^2 the
\* chord foot is c0 + K (dx, dy) / 2d^2 and the half chord is
\* sqrt(4 d^2 r0^2 - K^2) (-dy, dx) / 2d^2
circleCircleIntersections(c0, r0, c1, r1) ==
  LET dx == c1.x - c0.x
      dy == c1.y - c0.y
      D2 == dx * dx + dy * dy
      K == r0 * r0 - r1 * r1 + D2
      H2 == 4 * D2 * r0 * r0 - K * K
      Q == ISqrt(H2)
      p1 == Pt(c0.x + RoundDiv(K * dx - dy * Q, 2 * D2),
               c0.y + RoundDiv(K * dy + dx * Q, 2 * D2))
      p2 == Pt(c0.x + RoundDiv(K * dx + dy * Q, 2 * D2),
               c0.y + RoundDiv(K * dy - dx * Q, 2 * D2))
  IN IF D2 = 0 THEN <<>>
     ELSE IF r0 + r1 < 0 \/ D2 > (r0 + r1) * (r0 + r1) THEN <<>>
     ELSE IF D2 < (r0 - r1) * (r0 - r1) THEN <<>>
     ELSE IF H2 < 0 THEN <<>>
     ELSE IF Q = 0 THEN <<p1>>
     ELSE <<p1, p2>>

(* ----------------------------- snap resolver --------------------------- *)

\* getSnapThresholdScreenPx(), in centi-pixels
getSnapThresholdScreenPx == Min2(22, Max2(6, SNAP_THRESHOLD)) * 100

\* the screen bounding box of a segment (addSegmentIntersections)
SegAabb(s, v) ==
  LET aS == TransformPoint(s.a, v)
      bS == TransformPoint(s.b, v)
  IN [minX |-> Min2(aS.x, bS.x), maxX |-> Max2(aS.x, bS.x),
      minY |-> Min2(aS.y, bS.y), maxY |-> Max2(aS.y, bS.y)]

\* pushes the points of ips that are within thresholdPx of the pointer
RECURSIVE PushNear(_, _, _, _, _)
PushNear(ptsOut, ips, i, pointerScreen, v) ==
  IF i > Len(ips) THEN ptsOut
  ELSE PushNear(IF distPx(TransformPoint(ips[i], v), pointerScreen) <= getSnapThresholdScreenPx
                THEN pushUnique(ptsOut, ips[i], "intersection", IxId)
                ELSE ptsOut,
                ips, i + 1, pointerScreen, v)

RECURSIVE SegPairs(_, _, _, _, _, _)
SegPairs(ptsOut, active, i, j, pointerScreen, v) ==
  IF i > Len(active) THEN ptsOut
  ELSE IF j > Len(active) THEN SegPairs(ptsOut, active, i + 1, i + 2, pointerScreen, v)
  ELSE LET si == active[i]
           sj == active[j]
           ip == IF aabbIntersects(SegAabb(si, v), SegAabb(sj, v))
                 THEN lineIntersection(si.a, si.b, sj.a, sj.b)
                 ELSE <<>>
       IN SegPairs(PushNear(ptsOut, ip, 1, pointerScreen, v),
                   active, i, j + 1, pointerScreen, v)

\* addSegmentIntersections(pointerScreen, segs, ptsOut, thresholdPx)
addSegmentIntersections(pointerScreen, segs, ptsOut, v) ==
  LET th == getSnapThresholdScreenPx
      cursorBox == [minX |-> pointerScreen.x - th * 3, maxX |-> pointerScreen.x + th * 3,
                    minY |-> pointerScreen.y - th * 3, maxY |-> pointerScreen.y + th * 3]
      active == SelectSeq(segs, LAMBDA s : aabbIntersects(SegAabb(s, v), cursorBox))
  IN IF Len(active) < 2 THEN ptsOut
     ELSE SegPairs(ptsOut, active, 1, 2, pointerScreen, v)

RECURSIVE LineCirclePairs(_, _, _, _, _, _, _)
LineCirclePairs(ptsOut, segs, circles, i, j, pointerScreen, v) ==
  IF i > Len(segs) THEN ptsOut
  ELSE IF j > Len(circles)
       THEN LineCirclePairs(ptsOut, segs, circles, i + 1, 1, pointerScreen, v)
  ELSE LET ips == lineCircleIntersections(segs[i].a, segs[i].b, circles[j].c, circles[j].r)
       IN LineCirclePairs(PushNear(ptsOut, ips, 1, pointerScreen, v),
                          segs, circles, i, j + 1, pointerScreen, v)

\* addLineCircleIntersections(pointerScreen, segs, circles, ptsOut, thresholdPx)
addLineCircleIntersections(pointerScreen, segs, circles, ptsOut, v) ==
  LineCirclePairs(ptsOut, segs, circles, 1, 1, pointerScreen, v)

RECURSIVE CirclePairs(_, _, _, _, _, _)
CirclePairs(ptsOut, circles, i, j, pointerScreen, v) ==
  IF i > Len(circles) THEN ptsOut
  ELSE IF j > Len(circles) THEN CirclePairs(ptsOut, circles, i + 1, i + 2, pointerScreen, v)
  ELSE LET ips == circleCircleIntersections(circles[i].c, circles[i].r,
                                            circles[j].c, circles[j].r)
       IN CirclePairs(PushNear(ptsOut, ips, 1, pointerScreen, v),
                      circles, i, j + 1, pointerScreen, v)

\* addCircleCircleIntersections(pointerScreen, circles, ptsOut, thresholdPx)
addCircleCircleIntersections(pointerScreen, circles, ptsOut, v) ==
  CirclePairs(ptsOut, circles, 1, 2, pointerScreen, v)

\* the candidate list pickBestCandidate scores: the cached static candidates
\* and the intersections near the pointer.  enablePerpendicularSnap,
\* enableParallelSnap, enableTangentSnap and enableExtensionSnap are false
\* (constructor; nothing sets them), so those four add* calls return at once.
DynamicCandidates(pointerScreen, c, v) ==
  LET d1 == addSegmentIntersections(pointerScreen, c.segs, c.pts, v)
      d2 == addLineCircleIntersections(pointerScreen, c.segs, c.circles, d1, v)
  IN addCircleCircleIntersections(pointerScreen, c.circles, d2, v)

\* the score of a candidate at screen distance d
Score(d, kind) == d + kindPriority(kind) * priorityBiasPx

\* whether the scoring loop of pickBestCandidate takes candidate c over best
Better(b, score, d) ==
  \/ b.best = NoCand
  \/ score < b.score
  \/ (Abs(score - b.score) <= nearScoreWindow /\ d < b.d)

\* the scoring loop of pickBestCandidate, candidate i onward
RECURSIVE ScoreLoop(_, _, _, _, _)
ScoreLoop(b, cands, i, pointerScreen, v) ==
  IF i > Len(cands) THEN b
  ELSE LET c == cands[i]
           th == getSnapThresholdScreenPx
           InBox(cS) == ~(cS.x < pointerScreen.x - th \/ cS.x > pointerScreen.x + th
                          \/ cS.y < pointerScreen.y - th \/ cS.y > pointerScreen.y + th)
           Taken(cS, d) ==
             IF InBox(cS) /\ d <= th /\ Better(b, Score(d, c.kind), d)
             THEN [best |-> c, score |-> Score(d, c.kind), d |-> d]
             ELSE b
           Scored(cS) == Bind(distPx(cS, pointerScreen), LAMBDA d : Taken(cS, d))
       IN ScoreLoop(Bind(TransformPoint(c, v), Scored), cands, i + 1, pointerScreen, v)

\* the hysteresis test without the score margin: lastSnap is kept only while
\* it scores strictly better than best
KeepLastStrict(last, b, pointerScreen, v) ==
  LET dLast == distPx(TransformPoint(last, v), pointerScreen)
  IN /\ last # NoCand
     /\ dLast <= getSnapThresholdScreenPx + lastSnapHoldPx * 100
     /\ \/ b.best = NoCand
        \/ b.score > Score(dLast, last.kind)

\* the hysteresis test without its "if (!best) return lastSnap"
KeepLastNeedsBest(last, b, pointerScreen, v) ==
  LET dLast == distPx(TransformPoint(last, v), pointerScreen)
  IN /\ last # NoCand
     /\ dLast <= getSnapThresholdScreenPx + lastSnapHoldPx * 100
     /\ b.best # NoCand
     /\ b.score + holdScoreMargin >= Score(dLast, last.kind)

\* the hysteresis test of pickBestCandidate: keep lastSnap over best
KeepLast(last, b, pointerScreen, v) ==
  LET dLast == distPx(TransformPoint(last, v), pointerScreen)
  IN /\ last # NoCand
     /\ dLast <= getSnapThresholdScreenPx + lastSnapHoldPx * 100
     /\ \/ b.best = NoCand
        \/ b.score + holdScoreMargin >= Score(dLast, last.kind)

\* pickBestCandidate(pointerWorld) on the candidates c.pts, c.segs, c.circles
pickBestCandidate(pointerWorld, c, last, v) ==
  LET Scored(pointerScreen) ==
        Bind(ScoreLoop([best |-> NoCand, score |-> 0, d |-> 0],
                       DynamicCandidates(pointerScreen, c, v), 1, pointerScreen, v),
             LAMBDA b : IF KeepLast(last, b, pointerScreen, v) THEN last ELSE b.best)
  IN Bind(TransformPoint(pointerWorld, v), Scored)

(* ------------------------------- state --------------------------------- *)

VARIABLES
  objs,       \* canvas.getObjects(), in canvas order
  edits,      \* how many times the canvas has been changed
  enabled,    \* SnappingEngine.enabled
  lastSnap,   \* SnappingEngine.lastSnap
  cacheKey,   \* SnappingEngine._cacheKey
  cache,      \* SnappingEngine._cache
  vpt,        \* canvas.viewportTransform
  snapRes,    \* what the last applySnapToPointer call was given and returned
  lastOp      \* the operation that produced the current state

VARIABLES
  app,                  \* which page runs: the fabric "editor" or the "core" engine
  frames,               \* callbacks pending in requestAnimationFrame
  rotAnimRaf,           \* editor.__rotAnimRaf
  rotRaf,               \* SnappingEngine._rotRaf
  viewRotationDeg,      \* editor.viewRotationDeg
  viewRotationDegNorm,  \* editor.viewRotationDegNorm
  wheelLock,            \* InputRouter._wheelLock
  cvp,                  \* the core viewport's state: scale, offset, rotationRad
  events,               \* how many camera events have happened
  panning,              \* InputRouter._panning.active
  lastZoom,             \* the last zoom step: its screen point, the world point under it
  lastTick              \* the animation frame callback that ran last

VARIABLES
  activeToolId,   \* editor.activeToolId
  referenceLine,  \* SnappingEngine.referenceLine
  tools,          \* the fields of the drawing tools in editor.tools
  inputs          \* how many pointer and key events the tools have handled

VARIABLES
  call            \* a call of a geometry helper: its name, arguments, result once run

VARIABLES
  state,          \* the core engine's state object
  arrays,         \* the polyline arrays the engine and its tools hold, by identity
  selectTool,     \* the variables of createSelectTool's closure
  lineTool,       \* createLineTool's current
  currentToolId,  \* the core engine's currentToolId
  spaceDown,      \* document.body.dataset.spaceDown === '1'
  toolCalls,      \* the handlers of the current tool that a pan gesture has invoked
  gesture         \* where the mouse button is in its press, release and click

VARIABLES
  hasInit,        \* editor._hasInit
  activated,      \* the tools whose onActivate ran after their last onDeactivate
  planLevels      \* editor.planLevels

snapVars == <<objs, edits, enabled, lastSnap, cacheKey, cache, snapRes>>

viewVars == <<app, frames, rotAnimRaf, rotRaf, viewRotationDeg, viewRotationDegNorm,
              wheelLock, cvp, events, panning, lastZoom, lastTick>>

\* what the rotation animators read and write besides the two viewports
animVars == <<frames, rotAnimRaf, rotRaf, viewRotationDeg, viewRotationDegNorm,
              lastTick>>

toolVars == <<activeToolId, referenceLine, tools, inputs>>

engineVars == <<state, arrays, selectTool, lineTool, currentToolId, spaceDown, toolCalls,
                gesture>>

editorVars == <<hasInit, activated, planLevels>>

vars == <<objs, edits, enabled, lastSnap, cacheKey, cache, vpt, snapRes, lastOp,
          app, frames, rotAnimRaf, rotRaf, viewRotationDeg, viewRotationDegNorm,
          wheelLock, cvp, events, panning, lastZoom, lastTick,
          activeToolId, referenceLine, tools, inputs, call,
          state, arrays, selectTool, lineTool, currentToolId, spaceDown, toolCalls,
          gesture, hasInit, activated, planLevels>>

\* null
Null == [null |-> TRUE]

\* the tools as their constructors leave them; a preview or label field is
\* TRUE while the tool holds its preview object (which is on the canvas);
\* ArcTool.radius is <<>> for null and <<r>> for the number r
IdleTools ==
  [line |-> [startPt |-> Null, previewLine |-> FALSE, lengthLabel |-> FALSE],
   polyline |-> [points |-> <<>>, previewLine |-> FALSE, lengthLabel |-> FALSE],
   circle |-> [centre |-> Null, previewCircle |-> FALSE],
   arc |-> [centre |-> Null, radius |-> <<>>, startAngle |-> Null, preview |-> FALSE],
   filledRegion |-> [points |-> <<>>, preview |-> FALSE]]

\* no geometry helper has been called on its own
NoCall == [fn |-> "none", args |-> <<>>, out |-> <<>>, done |-> FALSE]

\* the editor's tools and the snapper's reference line right after construction
ToolInit ==
  /\ activeToolId = "select"
  /\ referenceLine = Null
  /\ tools = IdleTools
  /\ inputs = 0

\* the select tool of the core with nothing hovered and no interaction begun
\* initKeyRefModel(sheets): 0.65 of the plan's inner A4 half sizes 148.5 and
\* 105 mm, in tenths of a mm
InitialKeyRefModel == [left |-> -965, right |-> 965, back |-> -683, front |-> 683]

IdleSelectTool ==
  [hoveredSegment |-> Null, hoveredHandle |-> Null, activeHandle |-> Null,
   isSelecting |-> FALSE, selectStart |-> Null, selectEnd |-> Null,
   isDragging |-> FALSE, dragStartWorld |-> Null, dragOriginalSegments |-> Null,
   didJustFinishBoxSelect |-> FALSE]

\* createEngine: the state object, the tools and the key flags right after it
EngineCreated ==
  /\ state = [polylines |-> <<>>, selectedSegments |-> <<>>, mouse |-> [x |-> 0, y |-> 0],
              snapPoint |-> Null, snapType |-> Null, panning |-> FALSE,
              panStart |-> Null, draggingKeyRef |-> Null, keyRefModel |-> InitialKeyRefModel,
              activeViewId |-> "plan"]
  /\ arrays = <<>>
  /\ selectTool = IdleSelectTool
  /\ lineTool = <<>>
  /\ currentToolId = "select"
  /\ spaceDown = FALSE
  /\ toolCalls = {}
  /\ gesture = [phase |-> "idle", before |-> Null]

\* null where a level id can stand
NoLevel == "(null)"

\* the plan levels the Editor constructor sets
InitialPlanLevels ==
  [primary |-> "L0", overlay |-> NoLevel, levels |-> <<"L0", "L1", "L2", "L3", "L4">>]

\* the editor right after its constructor: init() has not run, no tool has
\* been activated
EditorConstructed ==
  /\ hasInit = FALSE
  /\ activated = {}
  /\ planLevels = InitialPlanLevels

\* the editor after init(): its setMode("select") returned at once, select
\* being the active tool id already
EditorStarted ==
  /\ hasInit = TRUE
  /\ activated = {}
  /\ planLevels = InitialPlanLevels

\* createViewport: scale 1/100 (in 1/10000), offset (50, 50) px, rotation 0
InitialCvp == [scale |-> 10000 \div 100, ox |-> 50 * 100, oy |-> 50 * 100, rot |-> 0]

\* no frame callback has run yet
NoTick == [owner |-> "none", anim |-> 0, t |-> 0,
           pivot |-> [x |-> 0, y |-> 0], pivotScreen |-> [x |-> 0, y |-> 0],
           before |-> [x |-> 0, y |-> 0]]

\* no zoom step has happened yet
NoZoom == [sp |-> [x |-> 0, y |-> 0], under |-> [x |-> 0, y |-> 0]]

\* the camera, the animators and the core viewport right after construction
ViewInit ==
  /\ frames = {}
  /\ rotAnimRaf = 0
  /\ rotRaf = 0
  /\ viewRotationDeg = 0
  /\ viewRotationDegNorm = 0
  /\ wheelLock = FALSE
  /\ cvp = InitialCvp
  /\ events = 0
  /\ panning = FALSE
  /\ lastZoom = NoZoom
  /\ lastTick = NoTick

(* ----------------------- inputs of the snap engine --------------------- *)

\* drawables the tools commit
L1 == LineObj(Pt(0, 0), Pt(40, 0))

L2 == LineObj(Pt(26, 0), Pt(26, 40))

K1 == CircleObj(Pt(60, 0), 10)

P1 == PolyObj("polyline", <<Pt(0, 30), Pt(20, 30), Pt(40, 30), Pt(40, 50)>>, Pt(20, 40))

Catalog == {L1, L2, K1, P1}

\* pointer positions (world)
PointerXs == {-8, 20, 23, 32, 33, 44, 56}

Pointers == {Pt(x, 0) : x \in PointerXs} \cup {Pt(12, 30)}

\* viewports the snap engine is exercised under
SnapViewports == {IdentityVpt, [z |-> 200, ang |-> 90, e |-> 5000, f |-> -3000]}

NoRes == [pointer |-> Pt(0, 0), snapped |-> FALSE, point |-> Pt(0, 0), target |-> NoCand,
          used |-> <<>>, prev |-> NoCand]

(* ------------------------ snap engine operations ----------------------- *)

\* _getCachedCandidates: the engine and canvas state after the call
getCachedCandidates(st) ==
  LET key == buildCacheKey(st.objs)
      Rebuilt(ex) == [st EXCEPT !.cacheKey = key,
                                !.cache = [pts |-> ex.pts, segs |-> ex.segs,
                                           circles |-> ex.circles],
                                !.objs = ex.objs]
  IN IF key = st.cacheKey THEN st
     ELSE Bind(getCandidatesSegmentsCirclesWorld(st.objs), Rebuilt)

\* applySnapToPointer(pointerWorld) on engine state st under viewport v:
\* the state after the call and the value returned
applySnapToPointer(pointerWorld, st, v) ==
  IF ~st.enabled
  THEN [st |-> st,
        res |-> [snapped |-> FALSE, point |-> pointerWorld, target |-> NoCand]]
  ELSE LET Picked(st1, best) ==
             IF best = NoCand
             THEN [st |-> [st1 EXCEPT !.lastSnap = NoCand],
                   res |-> [snapped |-> FALSE, point |-> pointerWorld, target |-> NoCand]]
             ELSE [st |-> [st1 EXCEPT !.lastSnap = best],
                   res |-> [snapped |-> TRUE, point |-> Pt(best.x, best.y), target |-> best]]
           Cached(st1) ==
             Bind(pickBestCandidate(pointerWorld, st1.cache, st1.lastSnap, v),
                  LAMBDA best : Picked(st1, best))
       IN Bind(getCachedCandidates(st), Cached)

EngineState ==
  [objs |-> objs, enabled |-> enabled, lastSnap |-> lastSnap,
   cacheKey |-> cacheKey, cache |-> cache]

\* a tool or the router calls snapper.applySnapToPointer(p)
ApplySnapToPointer(p) ==
  \E r \in {applySnapToPointer(p, EngineState, vpt)} :
     /\ objs' = r.st.objs
     /\ UNCHANGED edits
     /\ enabled' = r.st.enabled
     /\ lastSnap' = r.st.lastSnap
     /\ cacheKey' = r.st.cacheKey
     /\ cache' = r.st.cache
     /\ snapRes' = [pointer |-> p, snapped |-> r.res.snapped, point |-> r.res.point,
                    target |-> r.res.target, used |-> r.st.cache.pts, prev |-> lastSnap]
     /\ lastOp' = "snap"
     /\ UNCHANGED <<call, engineVars, editorVars, vpt, viewVars, toolVars>>

\* a change of the canvas by a tool or the editor
CanvasChange(newObjs, op) ==
  /\ edits < MaxEdits
  /\ edits' = edits + 1
  /\ objs' = newObjs
  /\ snapRes' = NoRes
  /\ lastOp' = op
  /\ UNCHANGED <<call, engineVars, editorVars,
                 enabled, lastSnap, cacheKey, cache, vpt, viewVars, toolVars>>

\* SnappingEngine.setEnabled(on)
SetEnabled(on) ==
  /\ enabled' = on
  /\ snapRes' = NoRes
  /\ lastOp' = "setEnabled"
  /\ UNCHANGED <<call, engineVars, editorVars,
                 objs, edits, lastSnap, cacheKey, cache, vpt, viewVars, toolVars>>

\* canvas.add(obj) of a committed drawable
CanvasAdd(o) ==
  /\ Len(objs) < MaxObjs
  /\ CanvasChange(Append(objs, o), "add")

\* canvas.remove(obj)
CanvasRemove(i) ==
  /\ i \in 1..Len(objs)
  /\ CanvasChange([k \in 1..(Len(objs) - 1) |-> IF k < i THEN objs[k] ELSE objs[k + 1]],
                  "remove")

\* updateLineFromHandles(line, handleA, handleB): the line's ends become a, b
updateLineFromHandles(o, a, b) ==
  LET cx == (a.x + b.x) \div 2
      cy == (a.y + b.y) \div 2
  IN [o EXCEPT !.left = cx, !.top = cy, !.x1 = a.x - cx, !.y1 = a.y - cy,
               !.x2 = b.x - cx, !.y2 = b.y - cy, !.scaleX = 1, !.scaleY = 1]

\* end points the select tool's handles are dragged to
HandleEnds == {<<Pt(0, 0), Pt(40, 0)>>, <<Pt(0, 0), Pt(24, 0)>>}

EditLine(i, ends) ==
  /\ i \in 1..Len(objs)
  /\ objs[i].type = "line"
  /\ updateLineFromHandles(objs[i], ends[1], ends[2]) # objs[i]
  /\ CanvasChange([objs EXCEPT ![i] = updateLineFromHandles(@, ends[1], ends[2])], "edit")

\* circle.set({ radius: r })
EditRadius(i, r) ==
  /\ i \in 1..Len(objs)
  /\ objs[i].type = "circle"
  /\ objs[i].radius # r
  /\ CanvasChange([objs EXCEPT ![i].radius = r], "edit")

\* polyline.set({ points }): vertex k becomes p
EditVertex(i, k, p) ==
  /\ i \in 1..Len(objs)
  /\ objs[i].type \in {"polyline", "polygon"}
  /\ k \in 1..Len(objs[i].points)
  /\ objs[i].points[k] # p
  /\ CanvasChange([objs EXCEPT ![i].points[k] = p], "edit")

\* obj.visible = on (plan level visibility)
SetVisible(i, on) ==
  /\ i \in 1..Len(objs)
  /\ objs[i].visible # on
  /\ CanvasChange([objs EXCEPT ![i].visible = on], "visible")

\* sequences of distinct drawables, at most n long
RECURSIVE ScenesUpTo(_)
ScenesUpTo(n) ==
  IF n = 0 THEN {<<>>}
  ELSE LET shorter == ScenesUpTo(n - 1)
       IN shorter \cup {Append(sc, o) : sc \in {t \in shorter : Len(t) = n - 1},
                                        o \in Catalog}

\* the drawings the resolver is exercised on
Scenes == {sc \in ScenesUpTo(MaxObjs) :
             \A i, j \in 1..Len(sc) : i # j => sc[i] # sc[j]}

\* a drawing is on the canvas; the pointer moves over it and snapping is
\* switched on and off
InitSnap ==
  /\ objs \in Scenes
  /\ edits = 0
  /\ enabled = TRUE
  /\ lastSnap = NoCand
  /\ cacheKey = <<>>
  /\ cache = EmptyCache
  /\ vpt \in SnapViewports
  /\ snapRes = NoRes
  /\ lastOp = "init"
  /\ app = "editor"
  /\ ViewInit
  /\ ToolInit
  /\ EngineCreated
  /\ EditorStarted
  /\ call = NoCall

NextSnap ==
  \/ \E p \in Pointers : ApplySnapToPointer(p)
  \/ \E on \in BOOLEAN : SetEnabled(on)

SpecSnap == InitSnap /\ [][NextSnap]_vars

\* pointer positions used while the drawing changes
CanvasPointers == {Pt(24, 0), Pt(12, 30)}

\* an empty canvas right after construction; drawables are added, edited,
\* hidden and removed between snap queries
InitCanvas ==
  /\ objs = <<>>
  /\ edits = 0
  /\ enabled = TRUE
  /\ lastSnap = NoCand
  /\ cacheKey = <<>>
  /\ cache = EmptyCache
  /\ vpt = IdentityVpt
  /\ snapRes = NoRes
  /\ lastOp = "init"
  /\ app = "editor"
  /\ ViewInit
  /\ ToolInit
  /\ EngineCreated
  /\ EditorStarted
  /\ call = NoCall

NextCanvas ==
  \/ \E p \in CanvasPointers : ApplySnapToPointer(p)
  \/ \E o \in Catalog : CanvasAdd(o)
  \/ \E i \in 1..MaxObjs : CanvasRemove(i)
  \/ \E i \in 1..MaxObjs, ends \in HandleEnds : EditLine(i, ends)
  \/ \E i \in 1..MaxObjs, r \in {10, 14} : EditRadius(i, r)
  \/ \E i \in 1..MaxObjs, k \in 1..2, p \in {Pt(20, 30), Pt(12, 30)} : EditVertex(i, k, p)
  \/ \E i \in 1..MaxObjs, on \in BOOLEAN : SetVisible(i, on)

SpecCanvas == InitCanvas /\ [][NextCanvas]_vars

(* --------------------------- camera rotation --------------------------- *)

\* durationMs = clamp(Number(opts.durationMs ?? 220), 80, 1200) of a call
\* that passes no durationMs
durationMs == clamp(220, 80, 1200)

\* easeInOutCubic(t), t and the result in thousandths
easeInOutCubic(t) ==
  IF t < 500 THEN (4 * t * t * t) \div 1000000
  ELSE 1000 - ((((2000 - 2 * t) * (2000 - 2 * t) * (2000 - 2 * t)) \div 2) \div 1000000)

\* rotatePoint(p, angle) of the core viewport, the result in thousandths
rotatePoint(p, a) ==
  [x |-> p.x * CosDeg(a) - p.y * SinDeg(a), y |-> p.x * SinDeg(a) + p.y * CosDeg(a)]

\* worldToScreen(p, scale, offset): p in thousandths of a world unit, scale
\* in 1/10000, the result in centi-pixels
worldToScreen(p, scale, offset) ==
  [x |-> (((p.x \div 10) * scale) \div 10000) + offset.x,
   y |-> (((p.y \div 10) * scale) \div 10000) + offset.y]

\* viewport.toScreen(p) in core viewport state c
toScreen(p, c) == worldToScreen(rotatePoint(p, -c.rot), c.scale, Pt(c.ox, c.oy))

\* n / d for d of either sign
SignedDiv(n, d) == IF d > 0 THEN RoundDiv(n, d) ELSE RoundDiv(-n, -d)

\* screenToWorld(p, scale, offset): p in centi-pixels, scale in 1/10000, the
\* result in world units
screenToWorld(p, scale, offset) ==
  [x |-> SignedDiv((p.x - offset.x) * 100, scale),
   y |-> SignedDiv((p.y - offset.y) * 100, scale)]

\* a toWorld that undoes scale and offset and leaves the rotation in
toWorldUnturned(p, c) == screenToWorld(p, c.scale, Pt(c.ox, c.oy))

\* viewport.toWorld(p) in core viewport state c
toWorld(p, c) ==
  LET rotated == rotatePoint(screenToWorld(p, c.scale, Pt(c.ox, c.oy)), c.rot)
  IN Pt(RoundDiv(rotated.x, 1000), RoundDiv(rotated.y, 1000))

\* screenToWorld(editor, pt): fabric.util.transformPoint(pt, invertTransform(vpt))
InvertTransformPoint(ps, v) ==
  LET dx == ps.x - v.e
      dy == ps.y - v.f
  IN Pt(RoundDiv(CosDeg(v.ang) * dx + SinDeg(v.ang) * dy, 1000 * v.z),
        RoundDiv(CosDeg(v.ang) * dy - SinDeg(v.ang) * dx, 1000 * v.z))

\* getPivotWorld(editor) / the engine's pivot: the plan sheet's centre, or
\* the centre of the papers when there is no plan sheet
Pivots == {Pt(30, 20)}

\* rotation deltas in degrees
Deltas == {90, -30}

\* the time between a callback and the one before it (or the start of the
\* animation): frames come half a duration or a whole duration apart
FrameGaps == {durationMs \div 2, durationMs}

\* requestAnimationFrame's return value: an id no pending callback has
FreshRaf(fs) ==
  CHOOSE n \in 1..(Cardinality(fs) + 3) :
    n \notin ({f.id : f \in fs} \cup {rotAnimRaf, rotRaf})

\* the closure of a tick callback of a rotation animation
Anim(id, owner, a0, da, zoom, pivot, pivotScreen) ==
  [id |-> id, owner |-> owner, anim |-> events + 1, a0 |-> a0, da |-> da, zoom |-> zoom,
   pivot |-> pivot, pivotScreen |-> pivotScreen, elapsed |-> 0]

\* rotateViewByAnimated(editor, deltaDeg, opts) of the editor
RotateViewByAnimated(deltaDeg, pivotWorld) ==
  /\ app = "editor"
  /\ events < MaxEvents
  /\ LET kept == {f \in frames : f.id # rotAnimRaf}
         a0 == angleFromVpt(vpt)
         a1 == normaliseAngle(a0 + deltaDeg)
         da == normaliseAngle(a1 - a0)
         id == FreshRaf(kept)
     IN /\ frames' = kept \cup {Anim(id, "editor", a0, da, zoomFromVpt(vpt), pivotWorld,
                                     TransformPoint(pivotWorld, vpt))}
        /\ rotAnimRaf' = id
  /\ events' = events + 1
  /\ lastOp' = "rotate"
  /\ UNCHANGED <<call, engineVars, editorVars,
                 snapVars, toolVars, lastZoom, vpt, app, rotRaf, viewRotationDeg, viewRotationDegNorm,
                 wheelLock, cvp, panning, lastTick>>

\* SnappingEngine.setViewAngleAnimated(targetAngleRad, {zoom})
setViewAngleAnimated(targetAngle, zoom, pivotWorld) ==
  /\ app = "editor"
  /\ events < MaxEvents
  /\ LET kept == {f \in frames : f.id # rotRaf}
         a0 == angleFromVpt(vpt)
         da == normaliseAngle(targetAngle - a0)
         id == FreshRaf(kept)
     IN /\ frames' = kept \cup {Anim(id, "snapper", a0, da, zoom, pivotWorld,
                                     TransformPoint(pivotWorld, vpt))}
        /\ rotRaf' = id
  /\ events' = events + 1
  /\ lastOp' = "rotate"
  /\ UNCHANGED <<call, engineVars, editorVars,
                 snapVars, toolVars, lastZoom, vpt, app, rotAnimRaf, viewRotationDeg, viewRotationDegNorm,
                 wheelLock, cvp, panning, lastTick>>

\* SnappingEngine.rotateViewAnimated(deltaDeg, opts)
RotateViewAnimated(deltaDeg, pivotWorld) ==
  setViewAngleAnimated(normaliseAngle(angleFromVpt(vpt) + deltaDeg), zoomFromVpt(vpt),
                       pivotWorld)

\* engine.rotateView(deltaDeg): rotateViewByAnimated(viewport, pivot, deltaDeg)
\* of the core
CoreRotateView(deltaDeg, pivotWorld) ==
  /\ app = "core"
  /\ events < MaxEvents
  /\ LET a0 == cvp.rot
         a1 == normaliseAngle(a0 + deltaDeg)
         da == normaliseAngle(a1 - a0)
     IN frames' = frames \cup {Anim(FreshRaf(frames), "core", a0, da, 0, pivotWorld,
                                    toScreen(pivotWorld, cvp))}
  /\ events' = events + 1
  /\ lastOp' = "rotate"
  /\ UNCHANGED <<call, engineVars, editorVars,
                 snapVars, toolVars, lastZoom, vpt, app, rotAnimRaf, rotRaf, viewRotationDeg,
                 viewRotationDegNorm, wheelLock, cvp, panning, lastTick>>

\* a tick that turns the camera and leaves the translation as it finds it
TickVptUnanchored(f, ang) == [vpt EXCEPT !.z = f.zoom, !.ang = normaliseAngle(ang)]

\* the viewportTransform a tick of the editor's or the snapper's animation
\* builds for camera angle ang
TickVpt(f, ang) ==
  LET base == [z |-> f.zoom, ang |-> normaliseAngle(ang), e |-> 0, f |-> 0]
      mapped == TransformPoint(f.pivot, base)
  IN [base EXCEPT !.e = f.pivotScreen.x - mapped.x, !.f = f.pivotScreen.y - mapped.y]

\* the core viewport after a tick of the core's animation set angle ang
TickCvp(f, ang) ==
  LET turned == [cvp EXCEPT !.rot = ang]
      newScreen == toScreen(f.pivot, turned)
  IN [turned EXCEPT !.ox = @ + f.pivotScreen.x - newScreen.x,
                    !.oy = @ + f.pivotScreen.y - newScreen.y]

\* the browser runs the pending callback f, gap after the frame before
Tick(f, gap) ==
  /\ f \in frames
  /\ LET elapsed == Min2(f.elapsed + gap, durationMs)
         t == clamp((elapsed * 1000) \div durationMs, 0, 1000)
         ang == f.a0 + ((f.da * easeInOutCubic(t)) \div 1000)
         id == FreshRaf(frames \ {f})
         again == IF t < 1000 THEN {[f EXCEPT !.id = id, !.elapsed = elapsed]} ELSE {}
     IN /\ frames' = (frames \ {f}) \cup again
        /\ vpt' = IF f.owner = "core" THEN vpt ELSE TickVpt(f, ang)
        /\ cvp' = IF f.owner = "core" THEN TickCvp(f, ang) ELSE cvp
        /\ rotAnimRaf' = IF f.owner = "editor" THEN (IF t < 1000 THEN id ELSE 0)
                         ELSE rotAnimRaf
        /\ rotRaf' = IF f.owner = "snapper" THEN (IF t < 1000 THEN id ELSE 0) ELSE rotRaf
        /\ viewRotationDeg' = IF f.owner = "editor" /\ t >= 1000 THEN ang
                              ELSE viewRotationDeg
        /\ viewRotationDegNorm' =
             IF f.owner = "editor" /\ t >= 1000 THEN JsMod(JsMod(ang, 360) + 360, 360)
             ELSE viewRotationDegNorm
        /\ lastTick' = [owner |-> f.owner, anim |-> f.anim, t |-> t, pivot |-> f.pivot,
                        pivotScreen |-> f.pivotScreen,
                        before |-> IF f.owner = "core" THEN toScreen(f.pivot, cvp)
                                   ELSE TransformPoint(f.pivot, vpt)]
  /\ lastOp' = "tick"
  /\ UNCHANGED <<call, engineVars, editorVars,
                 snapVars, toolVars, lastZoom, app, wheelLock, events, panning>>

(* ------------------------- pan, zoom and fit --------------------------- *)

\* the zoom clamp of onMouseWheel: clamp(newZoom, 0.08, 40), in percent
minZoom == 8

maxZoom == 4000

\* InputRouter.beginPan(e)
BeginPan ==
  /\ app = "editor"
  /\ panning' = TRUE
  /\ lastOp' = "view"
  /\ UNCHANGED <<call, engineVars, editorVars,
                 snapVars, toolVars, lastZoom, vpt, app, animVars, wheelLock, cvp, events>>

\* InputRouter.endPan()
EndPan ==
  /\ app = "editor"
  /\ panning
  /\ panning' = FALSE
  /\ lastOp' = "view"
  /\ UNCHANGED <<call, engineVars, editorVars,
                 snapVars, toolVars, lastZoom, vpt, app, animVars, wheelLock, cvp, events>>

\* InputRouter.updatePan(e): the mouse moved by (dx, dy) since the last event
UpdatePan(dx, dy) ==
  /\ app = "editor"
  /\ panning
  /\ events < MaxEvents
  /\ vpt' = [vpt EXCEPT !.e = @ + dx, !.f = @ + dy]
  /\ events' = events + 1
  /\ lastOp' = "view"
  /\ UNCHANGED <<call, engineVars, editorVars,
                 snapVars, toolVars, lastZoom, app, animVars, wheelLock, cvp, panning>>

\* Math.pow(0.999, deltaY) in thousandths, for one wheel notch either way
WheelFactor(deltaY) == IF deltaY < 0 THEN 1105 ELSE 905

\* InputRouter.onMouseWheel(opt): deltaY at screen point sp
OnMouseWheel(deltaY, sp) ==
  /\ app = "editor"
  /\ ~wheelLock
  /\ events < MaxEvents
  /\ wheelLock' = TRUE
  /\ LET oldZoom == zoomFromVpt(vpt)
         newZoom == clamp(RoundDiv(oldZoom * WheelFactor(deltaY), 1000), minZoom, maxZoom)
         worldBefore == InvertTransformPoint(sp, vpt)
         nextVpt == [vpt EXCEPT !.z = newZoom,
                                !.e = sp.x + RoundDiv((@ - sp.x) * newZoom, oldZoom),
                                !.f = sp.y + RoundDiv((@ - sp.y) * newZoom, oldZoom)]
         mapped == TransformPoint(worldBefore, nextVpt)
     IN /\ vpt' = [nextVpt EXCEPT !.e = @ + sp.x - mapped.x, !.f = @ + sp.y - mapped.y]
        /\ lastZoom' = [sp |-> sp, under |-> worldBefore]
  /\ events' = events + 1
  /\ lastOp' = "zoom"
  /\ UNCHANGED <<call, engineVars, editorVars, snapVars, toolVars, app, animVars, cvp, panning>>

\* the frame callback onMouseWheel registered: this._wheelLock = false
WheelUnlock ==
  /\ app = "editor"
  /\ wheelLock
  /\ wheelLock' = FALSE
  /\ lastOp' = "view"
  /\ UNCHANGED <<call, engineVars, editorVars,
                 snapVars, toolVars, lastZoom, vpt, app, animVars, cvp, events, panning>>

\* editor.mmToPx(mm) = mm * DPI_RATIO, DPI_RATIO = 96 / 25.4, in whole pixels
mmToPx(mm) == (mm * 960) \div 254

\* editor.A3_L, in mm
A3_L == [w |-> 420, h |-> 297]

\* editor.sheets.plan.centre
planCentre == Pt(0, 0)

\* applyCameraRotationImmediate(deg): T(pivotScreen) R(deg) T(-pivotScreen) vpt
applyCameraRotationImmediate(deg, v) ==
  LET ps == TransformPoint(planCentre, v)
      dx == v.e - ps.x
      dy == v.f - ps.y
  IN [v EXCEPT !.ang = normaliseAngle(@ + deg),
               !.e = ps.x + RoundDiv(CosDeg(deg) * dx - SinDeg(deg) * dy, 1000),
               !.f = ps.y + RoundDiv(SinDeg(deg) * dx + CosDeg(deg) * dy, 1000)]

\* editor.fitToSheets("plan") on a canvas of cw x ch pixels
FitToSheets(cw, ch) ==
  /\ app = "editor"
  /\ events < MaxEvents
  /\ LET pad == mmToPx(30)
         paperEdgePad == mmToPx(6)
         w == mmToPx(A3_L.w) + paperEdgePad * 2 + pad
         h == mmToPx(A3_L.h) + paperEdgePad * 2 + pad
         zoom == Min2((cw * 100) \div w, (ch * 100) \div h)
         fitted == [z |-> zoom, ang |-> 0,
                    e |-> (cw * 100) \div 2 - (planCentre.x * zoom),
                    f |-> (ch * 100) \div 2 - (planCentre.y * zoom)]
     IN /\ zoom > 0
        /\ vpt' = IF viewRotationDeg # 0
                  THEN applyCameraRotationImmediate(viewRotationDeg, fitted)
                  ELSE fitted
  /\ events' = events + 1
  /\ lastOp' = "view"
  /\ UNCHANGED <<call, engineVars, editorVars,
                 snapVars, toolVars, lastZoom, app, animVars, wheelLock, cvp, panning>>

\* the engine's mousemove while panning: viewport.setOffset(start + (dx, dy))
CorePan(dx, dy) ==
  /\ app = "core"
  /\ events < MaxEvents
  /\ cvp' = [cvp EXCEPT !.ox = @ + dx, !.oy = @ + dy]
  /\ events' = events + 1
  /\ lastOp' = "view"
  /\ UNCHANGED <<call, engineVars, editorVars,
                 snapVars, toolVars, lastZoom, vpt, app, animVars, wheelLock, panning>>

\* a zoom step that scales and leaves the offset as it finds it
zoomAtUnanchored(sp, deltaY, c) ==
  [c EXCEPT !.scale = (@ * (IF deltaY < 0 THEN 11 ELSE 9)) \div 10]

\* viewport.zoomAt(screenPoint, deltaY): zoom = 1.1 or 0.9
zoomAt(sp, deltaY, c) ==
  LET mouseWorld == toWorld(sp, c)
      zoom == IF deltaY < 0 THEN 11 ELSE 9
      scaled == [c EXCEPT !.scale = (@ * zoom) \div 10]
      newScreen == toScreen(mouseWorld, scaled)
  IN [scaled EXCEPT !.ox = @ + sp.x - newScreen.x,
                    !.oy = @ + sp.y - newScreen.y]

\* the core viewport's wheel handler
ZoomAt(sp, deltaY) ==
  /\ app = "core"
  /\ events < MaxEvents
  /\ cvp' = zoomAt(sp, deltaY, cvp)
  /\ lastZoom' = [sp |-> sp, under |-> toWorld(sp, cvp)]
  /\ events' = events + 1
  /\ lastOp' = "zoom"
  /\ UNCHANGED <<call, engineVars, editorVars,
                 snapVars, toolVars, vpt, app, animVars, wheelLock, panning>>

\* viewport.setScale(s)
SetScale(s) ==
  /\ app = "core"
  /\ events < MaxEvents
  /\ cvp' = [cvp EXCEPT !.scale = s]
  /\ events' = events + 1
  /\ lastOp' = "view"
  /\ UNCHANGED <<call, engineVars, editorVars,
                 snapVars, toolVars, lastZoom, vpt, app, animVars, wheelLock, panning>>

\* engine.setScaleFromDenom(denom): d = Number(denom) || 100; setScale(1 / d)
SetScaleFromDenom(denom) ==
  /\ app = "core"
  /\ events < MaxEvents
  /\ LET d == IF denom = 0 THEN 100 ELSE denom
     IN cvp' = [cvp EXCEPT !.scale = IF d > 0 THEN 10000 \div d ELSE -(10000 \div (-d))]
  /\ events' = events + 1
  /\ lastOp' = "view"
  /\ UNCHANGED <<call, engineVars, editorVars,
                 snapVars, toolVars, lastZoom, vpt, app, animVars, wheelLock, panning>>

\* viewport.fitToBounds(bounds, padding) on a canvas of w x h pixels
fitToBounds(b, padding, w, h, c) ==
  LET usableW == w - 2 * padding
      usableH == h - 2 * padding
      rangeX == b.maxX - b.minX
      rangeY == b.maxY - b.minY
      scale == Min2((usableW * 10000) \div rangeX, (usableH * 10000) \div rangeY)
      centre == Pt((b.minX + b.maxX) \div 2, (b.minY + b.maxY) \div 2)
      screenC == worldToScreen(rotatePoint(centre, -c.rot), scale, Pt(0, 0))
  IN IF rangeX <= 0 \/ rangeY <= 0 THEN c
     ELSE [c EXCEPT !.scale = scale,
                    !.ox = (w * 100) \div 2 - screenC.x,
                    !.oy = (h * 100) \div 2 - screenC.y]

\* world bounds the engine fits: the five sheets, the drawn content, nothing
FitBounds ==
  {[minX |-> -660, minY |-> -660, maxX |-> 660, maxY |-> 660],
   [minX |-> 0, minY |-> 0, maxX |-> 400, maxY |-> 200],
   [minX |-> 0, minY |-> 0, maxX |-> 0, maxY |-> 0]}

\* engine.fitToSheets(40) / engine.fitToContent(40) on a 1000 x 700 canvas
FitToBounds(b) ==
  /\ app = "core"
  /\ events < MaxEvents
  /\ cvp' = fitToBounds(b, 40, 1000, 700, cvp)
  /\ events' = events + 1
  /\ lastOp' = "view"
  /\ UNCHANGED <<call, engineVars, editorVars,
                 snapVars, toolVars, lastZoom, vpt, app, animVars, wheelLock, panning>>

\* the page is open: the camera is panned, zoomed, fitted and rotated
InitView ==
  /\ objs = <<>>
  /\ edits = 0
  /\ enabled = TRUE
  /\ lastSnap = NoCand
  /\ cacheKey = <<>>
  /\ cache = EmptyCache
  /\ vpt = IdentityVpt
  /\ snapRes = NoRes
  /\ lastOp = "init"
  /\ app \in {"editor", "core"}
  /\ ViewInit
  /\ ToolInit
  /\ EngineCreated
  /\ EditorStarted
  /\ call = NoCall

NextView ==
  \/ \E d \in Deltas, p \in Pivots : RotateViewByAnimated(d, p)
  \/ \E d \in {90}, p \in Pivots : RotateViewAnimated(d, p)
  \/ \E d \in Deltas, p \in Pivots : CoreRotateView(d, p)
  \/ \E f \in frames, gap \in FrameGaps : Tick(f, gap)
  \/ BeginPan
  \/ EndPan
  \/ \E d \in {<<-500, 700>>} : UpdatePan(d[1], d[2])
  \/ \E deltaY \in {-100, 100}, sp \in {Pt(6000, 4000)} : OnMouseWheel(deltaY, sp)
  \/ WheelUnlock
  \/ \E size \in {<<1200, 800>>, <<120, 90>>} : FitToSheets(size[1], size[2])
  \/ \E d \in {<<-500, 700>>} : CorePan(d[1], d[2])
  \/ \E deltaY \in {-100, 100}, sp \in {Pt(50000, 35000)} : ZoomAt(sp, deltaY)
  \/ \E s \in {200} : SetScale(s)
  \/ \E denom \in {0, 50, -100} : SetScaleFromDenom(denom)
  \/ \E b \in FitBounds : FitToBounds(b)

SpecView == InitView /\ [][NextView]_vars

(* ----------------------------- drawing tools --------------------------- *)

\* a tool preview or length label on the canvas: evented false and
\* isToolPreview; its geometry is drawn and never read
Preview(type) ==
  [Obj(type, 0, 0, 0, 0, 0, 0, 0, <<>>, Pt(0, 0), {"isToolPreview"})
     EXCEPT !.evented = FALSE]

IsPreview(o, type) == o.type = type /\ "isToolPreview" \in o.flags

\* canvas.remove(this.preview...) for the tool's preview of one type
RemovePreview(os, type) == SelectSeq(os, LAMBDA o : ~IsPreview(o, type))

\* canvas.add(preview) where the tool holds none of that type yet
AddPreview(os, type) ==
  IF \E i \in 1..Len(os) : IsPreview(os[i], type) THEN os
  ELSE Append(os, Preview(type))

\* removeToolPreviews(editor)
removeToolPreviews(os) == SelectSeq(os, LAMBDA o : ~("isToolPreview" \in o.flags))

\* what a handler has made of the canvas, the tools and the reference line,
\* and what it did: "draw", "commit" or "cancel"
Effect(os, ts, ref, op) == [objs |-> os, tools |-> ts, referenceLine |-> ref, op |-> op]

\* setReferenceLine(startPt, endPt)
setReferenceLine(startPt, endPt) ==
  IF startPt # Null /\ endPt # Null THEN [start |-> startPt, end |-> endPt] ELSE Null

\* axisSnapFromOrigin(originWorld, pointerWorld, AXIS_SNAP_TOL_DEG): the
\* direction is within the tolerance of an axis when the other component is
\* at most tan(tolerance) times the component along it
axisSnapFromOrigin(originWorld, pointerWorld) ==
  LET dx == pointerWorld.x - originWorld.x
      dy == pointerWorld.y - originWorld.y
      len == Hypot(dx, dy)
  IN IF len = 0 THEN [snapped |-> FALSE, point |-> pointerWorld]
     ELSE IF 1000 * Abs(dy) <= axisSnapTolTan * Abs(dx)
     THEN [snapped |-> TRUE,
           point |-> Pt(originWorld.x + (IF dx > 0 THEN len ELSE -len), originWorld.y)]
     ELSE IF 1000 * Abs(dx) <= axisSnapTolTan * Abs(dy)
     THEN [snapped |-> TRUE,
           point |-> Pt(originWorld.x, originWorld.y + (IF dy > 0 THEN len ELSE -len))]
     ELSE [snapped |-> FALSE, point |-> pointerWorld]

\* LineTool._computeEndPoint(rawWorld, doAngleSnap = false); direct is what
\* snapWorldPointerWithTarget(rawWorld) returned
computeEndPoint(startPt, rawWorld, direct) ==
  LET directPt == IF direct.snapped THEN direct.point ELSE rawWorld
  IN IF startPt # Null /\ axisSnapFromOrigin(startPt, rawWorld).snapped /\ ~direct.snapped
     THEN axisSnapFromOrigin(startPt, rawWorld).point
     ELSE directPt

\* the centre of the bounding box of a point list (pathOffset of a
\* fabric.Polyline / fabric.Polygon)
BoundsCentre(pts) ==
  LET xs == {pts[i].x : i \in 1..Len(pts)}
      ys == {pts[i].y : i \in 1..Len(pts)}
      lo(S) == CHOOSE v \in S : \A w \in S : v <= w
      hi(S) == CHOOSE v \in S : \A w \in S : v >= w
  IN Pt((lo(xs) + hi(xs)) \div 2, (lo(ys) + hi(ys)) \div 2)

\* angleFrom(a, b) = atan2(b.y - a.y, b.x - a.x), kept as the direction it
\* is the angle of; atan2(0, 0) is 0, the direction (1, 0)
angleFrom(a, b) == IF a = b THEN Pt(1, 0) ELSE Pt(b.x - a.x, b.y - a.y)

\* center + (cos, sin)(angle) * radius
PointAtAngle(center, radius, angle) ==
  Pt(center.x + RoundDiv(radius * angle.x, Hypot(angle.x, angle.y)),
     center.y + RoundDiv(radius * angle.y, Hypot(angle.x, angle.y)))

\* arcPathFrom(center, radius, startAngle, endAngle): the parsed path
\* "M sx sy A r r 0 largeArc sweep ex ey".  delta = normaliseAngleRad(end -
\* start) lies in (-pi, pi], so |delta| > pi never holds, and delta >= 0
\* exactly when the end direction is not clockwise of the start direction
arcPathFrom(center, radius, startAngle, endAngle) ==
  LET s == PointAtAngle(center, radius, startAngle)
      e == PointAtAngle(center, radius, endAngle)
      largeArc == 0
      sweep == IF startAngle.x * endAngle.y - startAngle.y * endAngle.x >= 0 THEN 1 ELSE 0
  IN <<<<"M", s.x, s.y>>, <<"A", radius, radius, 0, largeArc, sweep, e.x, e.y>>>>

\* new fabric.Path(pathD): the object's centre and its pathOffset are the
\* same point, kept as the midpoint of the arc's ends
ArcObj(pathD) ==
  LET c == Pt((pathD[1][2] + pathD[2][7]) \div 2, (pathD[1][3] + pathD[2][8]) \div 2)
  IN [Obj("path", c.x, c.y, 0, 0, 0, 0, 0, <<>>, c, {}) EXCEPT !.path = pathD]

\* the drawing tools of editor.tools
DrawingTools == {"line", "polyline", "circle", "arc", "filledRegion"}

\* cancel() of the tool toolId
cancel(toolId, e) ==
  CASE toolId = "line" ->
         Effect(RemovePreview(RemovePreview(e.objs, "line"), "text"),
                [e.tools EXCEPT !.line = IdleTools.line], Null, "cancel")
    [] toolId = "polyline" ->
         Effect(removeToolPreviews(e.objs),
                [e.tools EXCEPT !.polyline = IdleTools.polyline], Null, "cancel")
    [] toolId = "circle" ->
         Effect(removeToolPreviews(e.objs),
                [e.tools EXCEPT !.circle = IdleTools.circle], Null, "cancel")
    [] toolId = "arc" ->
         Effect(removeToolPreviews(e.objs),
                [e.tools EXCEPT !.arc = IdleTools.arc], Null, "cancel")
    [] toolId = "filledRegion" ->
         Effect(removeToolPreviews(e.objs),
                [e.tools EXCEPT !.filledRegion = IdleTools.filledRegion], Null, "cancel")

\* LineTool.commitLine(endPt): the preview and the label leave the canvas,
\* the line enters it and startPt is reset; the reference line is not touched
commitLine(endPt, e) ==
  IF e.tools.line.startPt = Null THEN e
  ELSE Effect(Append(RemovePreview(RemovePreview(e.objs, "line"), "text"),
                     LineObj(e.tools.line.startPt, endPt)),
              [e.tools EXCEPT !.line = IdleTools.line], e.referenceLine, "commit")

\* PolylineTool.finishLine()
finishLine(e) ==
  IF Len(e.tools.polyline.points) < 2 THEN cancel("polyline", e)
  ELSE Effect(Append(removeToolPreviews(e.objs),
                     PolyObj("polyline", e.tools.polyline.points,
                             BoundsCentre(e.tools.polyline.points))),
              [e.tools EXCEPT !.polyline = IdleTools.polyline], Null, "commit")

\* the commit at the end of CircleTool.onMouseDown
commitCircle(radiusPt, e) ==
  LET centre == e.tools.circle.centre
      r == Max2(1, Hypot(radiusPt.x - centre.x, radiusPt.y - centre.y))
  IN Effect(Append(RemovePreview(e.objs, "circle"), CircleObj(centre, r)),
            [e.tools EXCEPT !.circle = IdleTools.circle], Null, "commit")

\* ArcTool.commitArc(pathD)
commitArc(pathD, e) ==
  Effect(Append(RemovePreview(e.objs, "path"), ArcObj(pathD)),
         [e.tools EXCEPT !.arc = IdleTools.arc], Null, "commit")

\* FilledRegionTool.commitRegion(): the polygon is built, cancel() runs,
\* then the polygon is added
commitRegion(e) ==
  IF Len(e.tools.filledRegion.points) < 3 THEN cancel("filledRegion", e)
  ELSE LET poly == PolyObj("polygon", e.tools.filledRegion.points,
                           BoundsCentre(e.tools.filledRegion.points))
           c == cancel("filledRegion", e)
       IN Effect(Append(c.objs, poly), c.tools, c.referenceLine, "commit")

\* FilledRegionTool.rebuildPreview(lastCandidate) with n points to draw
rebuildPreview(os, n) ==
  IF n < 2 THEN RemovePreview(os, "polyline")
  ELSE Append(RemovePreview(os, "polyline"), Preview("polyline"))

\* a handler that called snapper.applySnapToPointer(p) (r is what the call
\* did to the engine and returned) and then produced e
ToolStep(r, p, e) ==
  /\ inputs < MaxInputs
  /\ inputs' = inputs + 1
  /\ objs' = e.objs
  /\ enabled' = r.st.enabled
  /\ lastSnap' = r.st.lastSnap
  /\ cacheKey' = r.st.cacheKey
  /\ cache' = r.st.cache
  /\ snapRes' = [pointer |-> p, snapped |-> r.res.snapped, point |-> r.res.point,
                 target |-> r.res.target, used |-> r.st.cache.pts, prev |-> lastSnap]
  /\ tools' = e.tools
  /\ referenceLine' = e.referenceLine
  /\ lastOp' = e.op
  /\ UNCHANGED <<call, engineVars, editorVars, edits, vpt, viewVars, activeToolId>>

\* a handler that did not call the snapper and produced e
ToolQuiet(e) ==
  /\ inputs < MaxInputs
  /\ inputs' = inputs + 1
  /\ objs' = e.objs
  /\ tools' = e.tools
  /\ referenceLine' = e.referenceLine
  /\ lastOp' = e.op
  /\ UNCHANGED <<call, engineVars, editorVars,
                 edits, enabled, lastSnap, cacheKey, cache, snapRes, vpt, viewVars,
                 activeToolId>>

\* the canvas (with the uids the snapper call wrote), the tools and the
\* reference line as a handler finds them after its snapper call r
After(r) == Effect(r.st.objs, tools, referenceLine, "draw")

\* the same for a handler that makes no snapper call
Now == Effect(objs, tools, referenceLine, "draw")

\* pointer events carry no Shift key and angleSnapMode is "shift", so
\* shouldAngleSnap(editor, opt) is false in every handler

\* LineTool.onMouseDown(opt), pointer at world point p
LineToolMouseDown(p) ==
  /\ activeToolId = "line"
  /\ \E r \in {applySnapToPointer(p, EngineState, vpt)} :
       IF tools.line.startPt = Null
       THEN LET start == IF r.res.snapped THEN r.res.point ELSE p
            IN ToolStep(r, p,
                 Effect(Append(RemovePreview(r.st.objs, "line"), Preview("line")),
                        [tools EXCEPT !.line.startPt = start, !.line.previewLine = TRUE],
                        setReferenceLine(start, start), "draw"))
       ELSE ToolStep(r, p,
                     commitLine(computeEndPoint(tools.line.startPt, p, r.res), After(r)))

\* LineTool.onMouseMove(opt) past its early return
LineToolMouseMove(p) ==
  /\ activeToolId = "line"
  /\ tools.line.startPt # Null
  /\ tools.line.previewLine
  /\ \E r \in {applySnapToPointer(p, EngineState, vpt)} :
       ToolStep(r, p,
         Effect(AddPreview(r.st.objs, "text"),
                [tools EXCEPT !.line.lengthLabel = TRUE],
                setReferenceLine(tools.line.startPt,
                                 computeEndPoint(tools.line.startPt, p, r.res)),
                "draw"))

\* whether distanceWorld(a, b) <= getCloseThresholdWorld(), which is
\* getSnapThresholdWorldPx() * 1.25 = 1.25 * thresholdPx / zoom
CloseToFirst(a, b, v) ==
  16 * v.z * v.z * ((a.x - b.x) * (a.x - b.x) + (a.y - b.y) * (a.y - b.y))
    <= 25 * getSnapThresholdScreenPx * getSnapThresholdScreenPx

\* PolylineTool.onMouseDown(opt), e.detail = detail
PolylineToolMouseDown(p, detail) ==
  /\ activeToolId = "polyline"
  /\ IF detail >= 2 /\ Len(tools.polyline.points) = 0
     THEN ToolQuiet(finishLine(Now))
     ELSE \E r \in {applySnapToPointer(p, EngineState, vpt)} :
            LET points == tools.polyline.points
                candidate == IF r.res.snapped THEN r.res.point ELSE p
                closes == Len(points) >= 3 /\ CloseToFirst(candidate, points[1], vpt)
                pushed == Append(points, IF closes THEN points[1] ELSE candidate)
                n == Len(pushed)
            IN IF detail >= 2 \/ closes
               THEN ToolStep(r, p,
                      finishLine(Effect(r.st.objs,
                                        [tools EXCEPT !.polyline.points = pushed],
                                        referenceLine, "draw")))
               ELSE ToolStep(r, p,
                      Effect(AddPreview(r.st.objs, "polyline"),
                             [tools EXCEPT !.polyline.points = pushed,
                                           !.polyline.previewLine = TRUE],
                             IF n >= 2 THEN setReferenceLine(pushed[n - 1], pushed[n])
                             ELSE referenceLine,
                             "draw"))

\* PolylineTool.onMouseMove(opt) past its early return
PolylineToolMouseMove(p) ==
  /\ activeToolId = "polyline"
  /\ tools.polyline.previewLine
  /\ Len(tools.polyline.points) >= 1
  /\ \E r \in {applySnapToPointer(p, EngineState, vpt)} :
       LET points == tools.polyline.points
           candidate == IF r.res.snapped THEN r.res.point ELSE p
       IN ToolStep(r, p,
            Effect(AddPreview(r.st.objs, "text"),
                   [tools EXCEPT !.polyline.lengthLabel = TRUE],
                   setReferenceLine(points[Len(points)], candidate), "draw"))

\* PolylineTool.handleDoubleClick() when 200 ms have passed since the last
\* finishLine
PolylineToolDoubleClick ==
  /\ activeToolId = "polyline"
  /\ ToolQuiet(finishLine(Now))

\* CircleTool.onMouseDown(opt)
CircleToolMouseDown(p) ==
  /\ activeToolId = "circle"
  /\ \E r \in {applySnapToPointer(p, EngineState, vpt)} :
       LET snapped == IF r.res.snapped THEN r.res.point ELSE p
       IN IF tools.circle.centre = Null
          THEN ToolStep(r, p,
                 Effect(Append(RemovePreview(r.st.objs, "circle"), Preview("circle")),
                        [tools EXCEPT !.circle.centre = snapped,
                                      !.circle.previewCircle = TRUE],
                        setReferenceLine(snapped, snapped), "draw"))
          ELSE ToolStep(r, p, commitCircle(snapped, After(r)))

\* CircleTool.onMouseMove(opt) past its early return
CircleToolMouseMove(p) ==
  /\ activeToolId = "circle"
  /\ tools.circle.centre # Null
  /\ tools.circle.previewCircle
  /\ \E r \in {applySnapToPointer(p, EngineState, vpt)} :
       ToolStep(r, p,
         Effect(r.st.objs, tools,
                setReferenceLine(tools.circle.centre,
                                 IF r.res.snapped THEN r.res.point ELSE p),
                "draw"))

\* ArcTool.onMouseDown(opt): centre, then radius and start angle, then the
\* end angle and the commit
ArcToolMouseDown(p) ==
  /\ activeToolId = "arc"
  /\ \E r \in {applySnapToPointer(p, EngineState, vpt)} :
       LET arc == tools.arc
           pt == IF r.res.snapped THEN r.res.point ELSE p
       IN IF arc.centre = Null
          THEN ToolStep(r, p,
                 Effect(r.st.objs, [tools EXCEPT !.arc.centre = pt],
                        setReferenceLine(pt, pt), "draw"))
          ELSE IF arc.radius = <<>>
          THEN ToolStep(r, p,
                 Effect(Append(RemovePreview(r.st.objs, "path"), Preview("path")),
                        [tools EXCEPT
                           !.arc.radius = <<Max2(1, Hypot(pt.x - arc.centre.x,
                                                          pt.y - arc.centre.y))>>,
                           !.arc.startAngle = angleFrom(arc.centre, pt),
                           !.arc.preview = TRUE],
                        setReferenceLine(arc.centre, pt), "draw"))
          ELSE ToolStep(r, p,
                 commitArc(arcPathFrom(arc.centre, arc.radius[1], arc.startAngle,
                                       angleFrom(arc.centre, pt)),
                           After(r)))

\* ArcTool.onMouseMove(opt) past its early return
ArcToolMouseMove(p) ==
  /\ activeToolId = "arc"
  /\ tools.arc.centre # Null
  /\ \E r \in {applySnapToPointer(p, EngineState, vpt)} :
       LET pt == IF r.res.snapped THEN r.res.point ELSE p
       IN IF tools.arc.radius = <<>>
          THEN ToolStep(r, p,
                 Effect(r.st.objs, tools, setReferenceLine(tools.arc.centre, pt), "draw"))
          ELSE ToolStep(r, p,
                 Effect(Append(RemovePreview(r.st.objs, "path"), Preview("path")),
                        [tools EXCEPT !.arc.preview = TRUE],
                        setReferenceLine(tools.arc.centre, pt), "draw"))

\* FilledRegionTool.handlePointerDown(opt)
FilledRegionToolPointerDown(p) ==
  /\ activeToolId = "filledRegion"
  /\ \E r \in {applySnapToPointer(p, EngineState, vpt)} :
       LET candidate == IF r.res.snapped THEN r.res.point ELSE p
           pushed == Append(tools.filledRegion.points, candidate)
       IN ToolStep(r, p,
            Effect(rebuildPreview(r.st.objs, Len(pushed) + 1),
                   [tools EXCEPT !.filledRegion.points = pushed,
                                 !.filledRegion.preview = TRUE],
                   referenceLine, "draw"))

\* FilledRegionTool.handlePointerMove(opt) past its early return
FilledRegionToolPointerMove(p) ==
  /\ activeToolId = "filledRegion"
  /\ Len(tools.filledRegion.points) >= 1
  /\ \E r \in {applySnapToPointer(p, EngineState, vpt)} :
       LET points == tools.filledRegion.points
           candidate == IF r.res.snapped THEN r.res.point ELSE p
       IN ToolStep(r, p,
            Effect(rebuildPreview(r.st.objs, Len(points) + 1),
                   [tools EXCEPT !.filledRegion.preview = TRUE],
                   setReferenceLine(points[Len(points)], candidate), "draw"))

\* InputRouter.onMouseDown with the right button while the active tool has
\* a commitRegion
RightButtonDown ==
  /\ activeToolId = "filledRegion"
  /\ ToolQuiet(commitRegion(Now))

\* the keydown listener: the active drawing tool's onKeyDown(e), e.key = key
OnKeyDown(key) ==
  /\ activeToolId \in DrawingTools
  /\ CASE key = "Escape" -> ToolQuiet(cancel(activeToolId, Now))
       [] key = "Enter" ->
            /\ activeToolId \in {"polyline", "filledRegion"}
            /\ ToolQuiet(IF activeToolId = "polyline" THEN finishLine(Now)
                         ELSE commitRegion(Now))
       [] key = "Backspace" ->
            /\ activeToolId \in {"polyline", "filledRegion"}
            /\ LET points == tools[activeToolId].points
                   popped == IF Len(points) > 0 THEN SubSeq(points, 1, Len(points) - 1)
                             ELSE points
               IN IF activeToolId = "polyline"
                  THEN LET e == Effect(objs, [tools EXCEPT !.polyline.points = popped],
                                       referenceLine, "draw")
                       IN ToolQuiet(IF Len(popped) < 2 THEN cancel("polyline", e) ELSE e)
                  ELSE ToolQuiet(
                         Effect(rebuildPreview(objs, Len(popped)),
                                [tools EXCEPT !.filledRegion.points = popped,
                                              !.filledRegion.preview = Len(popped) >= 2],
                                referenceLine, "draw"))

\* the tool ids of editor.tools
ToolIds == DrawingTools \cup {"select"}

\* Editor.setMode(toolId): the previous tool's onDeactivate() (cancel() for a
\* drawing tool), then the switch
SetMode(toolId) ==
  /\ toolId \in ToolIds
  /\ toolId # activeToolId
  /\ \E e \in {IF activeToolId \in DrawingTools THEN cancel(activeToolId, Now)
               ELSE Effect(objs, tools, referenceLine, "setMode")} :
       /\ objs' = e.objs
       /\ tools' = e.tools
       /\ referenceLine' = e.referenceLine
       /\ lastOp' = e.op
  /\ activeToolId' = toolId
  /\ activated' = (activated \ {activeToolId}) \cup {toolId}
  /\ inputs < MaxInputs
  /\ inputs' = inputs + 1
  /\ UNCHANGED <<call, engineVars, hasInit, planLevels, edits, enabled, lastSnap, cacheKey, cache,
                 snapRes, vpt, viewVars>>

\* world points the pointer is at when a tool receives an event
ToolPointers == {Pt(0, 0), Pt(40, 2), Pt(40, 30)}

\* the editor right after construction, on an empty canvas
InitTools ==
  /\ objs = <<>>
  /\ edits = 0
  /\ enabled = TRUE
  /\ lastSnap = NoCand
  /\ cacheKey = <<>>
  /\ cache = EmptyCache
  /\ vpt = IdentityVpt
  /\ snapRes = NoRes
  /\ lastOp = "init"
  /\ app = "editor"
  /\ ViewInit
  /\ ToolInit
  /\ EngineCreated
  /\ EditorStarted
  /\ call = NoCall

NextTools ==
  \/ \E toolId \in ToolIds : SetMode(toolId)
  \/ \E p \in ToolPointers : LineToolMouseDown(p)
  \/ \E p \in ToolPointers : LineToolMouseMove(p)
  \/ \E p \in ToolPointers, detail \in {1, 2} : PolylineToolMouseDown(p, detail)
  \/ \E p \in ToolPointers : PolylineToolMouseMove(p)
  \/ PolylineToolDoubleClick
  \/ \E p \in ToolPointers : CircleToolMouseDown(p)
  \/ \E p \in ToolPointers : CircleToolMouseMove(p)
  \/ \E p \in ToolPointers : ArcToolMouseDown(p)
  \/ \E p \in ToolPointers : ArcToolMouseMove(p)
  \/ \E p \in ToolPointers : FilledRegionToolPointerDown(p)
  \/ \E p \in ToolPointers : FilledRegionToolPointerMove(p)
  \/ RightButtonDown
  \/ \E key \in {"Escape", "Enter", "Backspace"} : OnKeyDown(key)

SpecTools == InitTools /\ [][NextTools]_vars

\* C8: after a drawing tool has committed its shape or has been cancelled,
\* the snapper's reference line is null
C8_ClearedAfterCommitOrCancel == lastOp \in {"commit", "cancel"} => referenceLine = Null

(* ----------------------- properties: snap resolver --------------------- *)

\* the screen distance of world point c from the pointer of the last call
DistToPointer(c, pw) == distPx(TransformPoint(c, vpt), TransformPoint(pw, vpt))

\* the candidates (static and dynamic) a call at pointer pw scores that lie
\* within the threshold of it
NearCandidates(pw) ==
  LET all == DynamicCandidates(TransformPoint(pw, vpt), cache, vpt)
  IN {all[i] : i \in {k \in 1..Len(all) :
                        DistToPointer(all[k], pw) <= getSnapThresholdScreenPx}}

\* C1: once a call returned A, a following call whose pointer moved by less
\* than lastSnapHoldPx to a position where another candidate B is exactly as
\* far as A (both within the threshold) still returns A, whatever the kinds of
\* A and B.
C1_HoldAgainstEquidistant ==
  [][(/\ lastOp = "snap" /\ snapRes.snapped
      /\ lastOp' = "snap"
      /\ distPx(TransformPoint(snapRes.pointer, vpt),
                TransformPoint(snapRes'.pointer, vpt)) < lastSnapHoldPx * 100
      /\ DistToPointer(snapRes.target, snapRes'.pointer) <= getSnapThresholdScreenPx
      /\ \E b \in NearCandidates(snapRes'.pointer) \ {snapRes.target} :
            DistToPointer(b, snapRes'.pointer)
              = DistToPointer(snapRes.target, snapRes'.pointer))
     => snapRes'.target = snapRes.target]_vars

\* C1 (as the code has it): a call of the enabled engine returns the previous
\* target A again whenever A is within thresholdPx + lastSnapHoldPx of the
\* pointer and no candidate within the threshold scores more than 0.35 px
\* below A; a candidate of a better kind at the same distance does displace A.
C1_HoldWithinScoreMargin ==
  (/\ lastOp = "snap" /\ enabled /\ snapRes.prev # NoCand
   /\ DistToPointer(snapRes.prev, snapRes.pointer)
        <= getSnapThresholdScreenPx + lastSnapHoldPx * 100
   /\ \A c \in NearCandidates(snapRes.pointer) :
         Score(DistToPointer(c, snapRes.pointer), c.kind) + holdScoreMargin
           >= Score(DistToPointer(snapRes.prev, snapRes.pointer), snapRes.prev.kind))
  => (snapRes.snapped /\ snapRes.target = snapRes.prev)

\* the hold decided a call: it returned the previous target where the scoring
\* loop alone picks another candidate
C1_HoldDecided ==
  /\ lastOp = "snap" /\ enabled /\ snapRes.snapped
  /\ snapRes.target = snapRes.prev
  /\ pickBestCandidate(snapRes.pointer, cache, NoCand, vpt)
       \notin {NoCand, snapRes.target}

\* C2: after every applySnapToPointer call, enabled or not: snapped:true comes
\* with lastSnap = the returned target; snapped:false comes with lastSnap null
\* and the input pointer returned unmodified.
C2_LastSnapMatchesResult ==
  lastOp = "snap" =>
    IF snapRes.snapped
    THEN lastSnap = snapRes.target
    ELSE lastSnap = NoCand /\ snapRes.point = snapRes.pointer

\* C3: a call with no candidate within thresholdPx of the pointer clears
\* lastSnap and reports snapped:false, also right after a call that snapped.
C3_ClearedWhenNothingNear ==
  (lastOp = "snap" /\ enabled /\ NearCandidates(snapRes.pointer) = {})
  => (lastSnap = NoCand /\ ~snapRes.snapped)

\* C3 (as the code has it): with no candidate within thresholdPx, the call
\* returns the previous target again if that lies within thresholdPx +
\* lastSnapHoldPx of the pointer, and otherwise clears lastSnap and reports
\* snapped:false with the input pointer.
C3_ClearedUnlessHeld ==
  (lastOp = "snap" /\ enabled /\ NearCandidates(snapRes.pointer) = {})
  => IF /\ snapRes.prev # NoCand
        /\ DistToPointer(snapRes.prev, snapRes.pointer)
             <= getSnapThresholdScreenPx + lastSnapHoldPx * 100
     THEN snapRes.snapped /\ snapRes.target = snapRes.prev /\ lastSnap = snapRes.prev
     ELSE ~snapRes.snapped /\ lastSnap = NoCand /\ snapRes.point = snapRes.pointer

\* a call that followed a snap found nothing near and cleared lastSnap
C3_ClearedAfterSnap ==
  /\ lastOp = "snap" /\ enabled /\ snapRes.prev # NoCand
  /\ NearCandidates(snapRes.pointer) = {}
  /\ ~snapRes.snapped /\ lastSnap = NoCand

\* the half candidates that have an end or vertex candidate at the same screen
\* distance from pointer pw, both within the threshold
HalvesTiedWithEnd(pw) ==
  {h \in NearCandidates(pw) :
     /\ h.kind = "half"
     /\ \E e \in NearCandidates(pw) :
           /\ e.kind \in {"end", "vertex"}
           /\ DistToPointer(e, pw) = DistToPointer(h, pw)}

Shape(c) == [c EXCEPT !.srcId = 0]

\* C7: after a drawable is added, removed or geometrically edited, the next
\* applySnapToPointer of the enabled engine works on candidates equal to a
\* fresh extraction from the objects now on the canvas.
C7_CacheIsFresh ==
  (lastOp = "snap" /\ enabled) =>
    LET ex == getCandidatesSegmentsCirclesWorld(objs)
    IN /\ [i \in 1..Len(cache.pts) |-> Shape(cache.pts[i])]
            = [i \in 1..Len(ex.pts) |-> Shape(ex.pts[i])]
       /\ [i \in 1..Len(cache.segs) |-> Shape(cache.segs[i])]
            = [i \in 1..Len(ex.segs) |-> Shape(ex.segs[i])]
       /\ [i \in 1..Len(cache.circles) |-> Shape(cache.circles[i])]
            = [i \in 1..Len(ex.circles) |-> Shape(ex.circles[i])]

(* ------------------- properties: camera and viewport ------------------- *)

\* the pending tick callbacks of rotation animations on the fabric canvas
CanvasRotations == {f \in frames : f.owner \in {"editor", "snapper"}}

\* the pending tick callbacks of rotation animations on the core viewport
CoreRotations == {f \in frames : f.owner = "core"}

\* C4: whichever entry point starts a rotation, the one in flight is
\* cancelled: at every moment at most one rotation animation has a frame
\* callback pending on a viewport.
C4_OnePendingRotation ==
  /\ Cardinality(CanvasRotations) <= 1
  /\ Cardinality(CoreRotations) <= 1

\* where the pivot of the last tick is on screen now
PivotOnScreen ==
  IF lastTick.owner = "core" THEN toScreen(lastTick.pivot, cvp)
  ELSE TransformPoint(lastTick.pivot, vpt)

\* C5: at the end of every tick of a rotation animation (editor, snapper or
\* core) the world pivot is at the screen position it had when the animation
\* was started, also when pans, zooms and fits came between the frames.
C5_PivotLocked == lastOp = "tick" => PivotOnScreen = lastTick.pivotScreen

\* a tick found the pivot moved away (by a pan, a zoom or a fit) half way
\* through the animation and put it back
C5_PivotRestored ==
  /\ lastOp = "tick"
  /\ lastTick.t = 500
  /\ lastTick.before # lastTick.pivotScreen
  /\ PivotOnScreen = lastTick.pivotScreen

\* C6: when a rotation animation has run its tick at t >= 1, none of its
\* callbacks is pending, the cancel handle of its entry point is 0, and on the
\* fabric canvas viewRotationDegNorm is in [0, 360) and is the camera's angle
\* modulo 360.
C6_IdleAndPublished ==
  (lastOp = "tick" /\ lastTick.t >= 1000) =>
     /\ \A f \in frames : f.anim # lastTick.anim
     /\ lastTick.owner = "editor" => rotAnimRaf = 0
     /\ lastTick.owner = "snapper" => rotRaf = 0
     /\ lastTick.owner \in {"editor", "snapper"} =>
          /\ viewRotationDegNorm \in 0..359
          /\ viewRotationDegNorm = angleFromVpt(vpt) % 360

\* C9: the scale of the core viewport stays positive and the zoom of the
\* fabric canvas stays within [0.08, 40], the one range the code clamps to,
\* after every zoom, set-scale, fit and rotation operation.
C9_ScaleInRange ==
  /\ cvp.scale > 0
  /\ zoomFromVpt(vpt) \in minZoom..maxZoom

\* C11: right after a zoomAt or wheel-zoom step at screen point s, the world
\* point that was under s before the step is mapped to s again
C11_ZoomAnchored ==
  lastOp = "zoom" =>
    (IF app = "core" THEN toScreen(lastZoom.under, cvp)
     ELSE TransformPoint(lastZoom.under, vpt)) = lastZoom.sp

\* a zoom step happened on a turned camera and changed the scale
C11_ZoomedWhileTurned ==
  /\ lastOp = "zoom"
  /\ IF app = "core" THEN cvp.rot # 0 /\ cvp.scale # InitialCvp.scale
     ELSE vpt.ang # 0 /\ vpt.z # IdentityVpt.z

(* ------------------- properties: coordinate transform ------------------ *)

\* world points whose way through the screen and back is followed
ProbePoints == {Pt(30, 20), Pt(-660, 400)}

\* how far apart two points are along the axes
AxisGap(a, b) == Max2(Abs(a.x - b.x), Abs(a.y - b.y))

\* the resolution of the fixed-point numbers, in world units: the rounding
\* of toWorld to whole units, and three centi-pixels of truncation in toScreen
\* carried back through the scale
RoundTripTol(scale) == 1 + (3 * 100) \div scale

\* C12: in every state the camera can be brought to by pans, zooms, fits and
\* rotations, toWorld(toScreen(p)) gives p back for every world point p: on
\* the core viewport (scale > 0) to within the resolution of the numbers, on
\* the fabric canvas (worldToScreen / screenToWorld of the tools) exactly
C12_RoundTrip ==
  \A p \in ProbePoints :
    /\ (app = "core" /\ cvp.scale > 0) =>
         AxisGap(toWorld(toScreen(p, cvp), cvp), p) <= RoundTripTol(cvp.scale)
    /\ app = "editor" => InvertTransformPoint(TransformPoint(p, vpt), vpt) = p

\* the core viewport has been turned, zoomed and moved
C12_TurnedZoomedMoved ==
  /\ app = "core"
  /\ cvp.rot # 0
  /\ cvp.scale > 0 /\ cvp.scale # InitialCvp.scale
  /\ <<cvp.ox, cvp.oy>> # <<InitialCvp.ox, InitialCvp.oy>>
  /\ lastOp = "view"

(* ------------------ properties: sources of candidates ------------------ *)

\* the uids of the objects on the canvas that snapping must leave out: guide
\* objects and invisible objects
LeftOutUids ==
  {objs[i].uid : i \in {j \in 1..Len(objs) : objectIsNonSnappable(objs[j])}} \ {0}

\* C13: after a snap query, whatever additions, removals and visibility
\* changes came before it, no candidate in the cache and no returned target
\* has a guide object or an invisible object of the canvas as its source
C13_NoGuideOrHiddenSource ==
  lastOp = "snap" =>
    /\ \A k \in 1..Len(cache.pts) : cache.pts[k].srcId \notin LeftOutUids
    /\ snapRes.snapped => snapRes.target.srcId \notin LeftOutUids

\* C14: a snap query leaves every property of every object of the canvas as
\* it was
C14_QueryLeavesObjects == [][lastOp' = "snap" => objs' = objs]_vars

(* ------------------- geometry helpers called on their own -------------- *)

\* a call of helper fn with its arguments, not yet run
Pending(fn, args) == [fn |-> fn, args |-> args, out |-> <<>>, done |-> FALSE]

\* the corner of the grids the helpers' arguments are drawn from
MaxCoord == 3

Grid == 0..MaxCoord

GridPoints == {Pt(x, y) : x \in Grid, y \in Grid}

\* a quotient n / d of two integers, d # 0, kept exact: <<numerator, denominator>>
\* with a positive denominator
Frac(n, d) == IF d < 0 THEN <<-n, -d>> ELSE <<n, d>>

FracLe(p, q) == p[1] * q[2] <= q[1] * p[2]

\* Math.min, Math.max of two quotients
FracMin(p, q) == IF FracLe(p, q) THEN p ELSE q

FracMax(p, q) == IF FracLe(p, q) THEN q ELSE p

\* segmentIntersectsBox: the clip of [t0, t1] against the two edges of one
\* axis; a1, b1 are the segment's coordinates on the axis, lo and hi the box's
ClipAxis(t, a1, b1, lo, hi) ==
  LET d == b1 - a1
  IN IF ~t.ok THEN t
     ELSE IF d < 0
       THEN IF a1 < lo THEN [t EXCEPT !.ok = FALSE]
            ELSE [t EXCEPT !.t1 = IF b1 > hi THEN FracMin(@, Frac(hi - a1, d)) ELSE @,
                           !.t0 = IF a1 > hi THEN FracMax(@, Frac(hi - a1, d)) ELSE @]
     ELSE IF d > 0
       THEN IF a1 > hi THEN [t EXCEPT !.ok = FALSE]
            ELSE [t EXCEPT !.t1 = IF b1 < lo THEN FracMin(@, Frac(lo - a1, d)) ELSE @,
                           !.t0 = IF a1 < lo THEN FracMax(@, Frac(lo - a1, d)) ELSE @]
     ELSE IF a1 < lo \/ a1 > hi THEN [t EXCEPT !.ok = FALSE]
     ELSE t

\* segmentIntersectsBox(a, b, box)
segmentIntersectsBox(a, b, box) ==
  LET minX == Min2(box.x1, box.x2)
      maxX == Max2(box.x1, box.x2)
      minY == Min2(box.y1, box.y2)
      maxY == Max2(box.y1, box.y2)
      Inside(p) == p.x >= minX /\ p.x <= maxX /\ p.y >= minY /\ p.y <= maxY
      clipped == ClipAxis(ClipAxis([ok |-> TRUE, t0 |-> <<0, 1>>, t1 |-> <<1, 1>>],
                                   a.x, b.x, minX, maxX),
                          a.y, b.y, minY, maxY)
  IN IF (a.x < minX /\ b.x < minX) \/ (a.x > maxX /\ b.x > maxX) THEN FALSE
     ELSE IF (a.y < minY /\ b.y < minY) \/ (a.y > maxY /\ b.y > maxY) THEN FALSE
     ELSE IF Inside(a) /\ Inside(b) THEN TRUE
     ELSE IF b.x - a.x = 0 /\ b.y - a.y = 0 THEN Inside(a)
     ELSE /\ clipped.ok
          /\ FracLe(clipped.t0, clipped.t1)
          /\ FracLe(<<0, 1>>, clipped.t1)
          /\ FracLe(clipped.t0, <<1, 1>>)

\* selection boxes as the select tool builds them from the two corners of a
\* drag: dragged left to right and top to bottom, and dragged the other way
SelectionBoxes ==
  {[x1 |-> 1, y1 |-> 1, x2 |-> MaxCoord - 1, y2 |-> MaxCoord - 1],
   [x1 |-> MaxCoord - 1, y1 |-> MaxCoord - 1, x2 |-> 1, y2 |-> 1]}

\* createSelectTool.onMouseUp tests a segment of a polyline against the box
CallSegmentIntersectsBox ==
  /\ call.fn = "segmentIntersectsBox" /\ ~call.done
  /\ call' = [call EXCEPT !.done = TRUE,
                          !.out = segmentIntersectsBox(call.args[1], call.args[2], call.args[3])]
  /\ UNCHANGED <<snapVars, vpt, lastOp, viewVars, toolVars, engineVars, editorVars>>

\* the canvas and the padding of engine.fitToSheets(40) / fitToContent(40)
FitCanvasW == 1000

FitCanvasH == 700

FitPadding == 40

\* world rectangles with positive ranges: the five sheets, and drawn content
\* of several sizes
FitRects ==
  {[minX |-> -660, minY |-> -660, maxX |-> 660, maxY |-> 660]} \cup
  {[minX |-> 0, minY |-> 0, maxX |-> 200 * x, maxY |-> 100 * y] :
     x \in Grid \ {0}, y \in Grid \ {0}}

\* the rotations rotateView leaves the core viewport at
FitRotations == {0, 45, 90, -30, 180}

\* viewport.fitToBounds(bounds, padding) on a viewport turned by rot degrees
CallFitToBounds ==
  /\ call.fn = "fitToBounds" /\ ~call.done
  /\ call' = [call EXCEPT !.done = TRUE,
                          !.out = fitToBounds(call.args[1], call.args[2],
                                              FitCanvasW, FitCanvasH, call.args[3])]
  /\ UNCHANGED <<snapVars, vpt, lastOp, viewVars, toolVars, engineVars, editorVars>>

\* twice the signed area spanned by the directions u and d: positive when d
\* is counter-clockwise of u
Wedge(u, d) == u.x * d.y - u.y * d.x

\* the direction of the angle m * stepDeg / 2 for odd m: half-way between two
\* neighbouring multiples of stepDeg.  For a step of 45 degrees these are
\* 22.5 degrees (cos 0.924, sin 0.383) and 67.5 degrees turned by quarter turns
HalfStepDir(m, stepDeg) ==
  IF stepDeg % 30 = 0 THEN Pt(CosDeg((m * stepDeg) \div 2), SinDeg((m * stepDeg) \div 2))
  ELSE LET j == (m - 1) \div 2
           base == IF j % 2 = 0 THEN Pt(924, 383) ELSE Pt(383, 924)
           turned == rotatePoint(base, 90 * (j \div 2))
       IN Pt(turned.x \div 1000, turned.y \div 1000)

\* the k with angle / step in [k, k + 1): Math.floor(angleRad / stepRad),
\* for the angle of direction d
StepsBelow(d, stepDeg) ==
  CHOOSE k \in -(180 \div stepDeg)..((180 \div stepDeg) - 1) :
    /\ Wedge(Pt(CosDeg(k * stepDeg), SinDeg(k * stepDeg)), d) >= 0
    /\ Wedge(Pt(CosDeg((k + 1) * stepDeg), SinDeg((k + 1) * stepDeg)), d) < 0

\* Math.floor(angleRad / stepRad) * stepRad, in degrees
snapAngleDown(d, stepDeg) ==
  IF d.x = 0 /\ d.y = 0 THEN 0
  ELSE IF d.y = 0 /\ d.x < 0 THEN 180
  ELSE StepsBelow(d, stepDeg) * stepDeg

\* the k = Math.round(angleRad / stepRad) for the angle of direction d in
\* (-180, 180]: angle / step lies in [k - 1/2, k + 1/2), halves go up
StepsNearest(d, stepDeg) ==
  LET half == 180 \div stepDeg
      k == CHOOSE i \in -half..(half - 1) :
             /\ Wedge(HalfStepDir(2 * i - 1, stepDeg), d) >= 0
             /\ Wedge(HalfStepDir(2 * i + 1, stepDeg), d) < 0
  IN IF k = -half /\ d.y >= 0 THEN half ELSE k

\* snapAngleRadians(angleRad, stepRad) = Math.round(angleRad / stepRad) * stepRad
\* for angleRad = normaliseAngleRad(Math.atan2(d.y, d.x)); the result in degrees
snapAngleRadians(d, stepDeg) ==
  IF d.x = 0 /\ d.y = 0 THEN 0 ELSE StepsNearest(d, stepDeg) * stepDeg

\* SnappingEngine.applyAngleSnap(originWorld, pointerWorld, {enabled, stepDeg});
\* points in hundredths of a world unit
applyAngleSnap(originWorld, pointerWorld, isOn, stepDeg) ==
  LET d == Pt(pointerWorld.x - originWorld.x, pointerWorld.y - originWorld.y)
      snappedAng == snapAngleRadians(d, stepDeg)
      len == Hypot(d.x, d.y)
  IN IF ~isOn THEN pointerWorld
     ELSE Pt(originWorld.x + RoundDiv(CosDeg(snappedAng) * len, 1000),
             originWorld.y + RoundDiv(SinDeg(snappedAng) * len, 1000))

\* the origins (the last placed point) and the steps of the angle constraint
SnapOrigins == {Pt(0, 0), Pt(500, -300)}

SnapSteps == {45, 90}

\* pointer positions around an origin
PointersAround(o) ==
  {Pt(o.x + 250 * i, o.y + 250 * j) : i \in -MaxCoord..MaxCoord, j \in -MaxCoord..MaxCoord}

\* applyAngleConstraint of a tool: snapper.applyAngleSnap(origin, pointer,
\* {enabled: true, stepDeg})
CallApplyAngleSnap ==
  /\ call.fn = "applyAngleSnap" /\ ~call.done
  /\ call' = [call EXCEPT !.done = TRUE,
                          !.out = applyAngleSnap(call.args[1], call.args[2], TRUE,
                                                 call.args[3])]
  /\ UNCHANGED <<snapVars, vpt, lastOp, viewVars, toolVars, engineVars, editorVars>>

\* grid points twenty world units apart: the ends of drawn lines
DrawnPoints == {Pt(20 * p.x, 20 * p.y) : p \in GridPoints}

\* the second segment of a pair: level, steep, and a short diagonal
OtherSegments ==
  {<<Pt(0, 30), Pt(60, 30)>>, <<Pt(10, 0), Pt(50, 60)>>, <<Pt(20, 20), Pt(40, 40)>>}

\* a pair of segments is tested for its crossing
CallLineIntersection ==
  /\ call.fn = "lineIntersection" /\ ~call.done
  /\ call' = [call EXCEPT !.done = TRUE,
                          !.out = lineIntersection(call.args[1], call.args[2],
                                                   call.args[3], call.args[4])]
  /\ UNCHANGED <<snapVars, vpt, lastOp, viewVars, toolVars, engineVars, editorVars>>

\* addSegmentIntersections(pointerScreen, segs, ptsOut, thresholdPx) on an
\* empty ptsOut, for the pointer at world point args[1] of an unturned canvas
CallAddSegmentIntersections ==
  /\ call.fn = "addSegmentIntersections" /\ ~call.done
  /\ call' = [call EXCEPT !.done = TRUE,
                          !.out = addSegmentIntersections(
                                    TransformPoint(call.args[1], IdentityVpt),
                                    call.args[2], <<>>, IdentityVpt)]
  /\ UNCHANGED <<snapVars, vpt, lastOp, viewVars, toolVars, engineVars, editorVars>>

\* circles on the drawing: the first touches the lines x = 0, y = 0, x = 40
\* and y = 40
DrawnCircles == {[c |-> Pt(20, 20), r |-> 20], [c |-> Pt(30, 30), r |-> 10]}

\* a segment is tested against a circle
CallLineCircleIntersections ==
  /\ call.fn = "lineCircleIntersections" /\ ~call.done
  /\ call' = [call EXCEPT !.done = TRUE,
                          !.out = lineCircleIntersections(call.args[1], call.args[2],
                                                          call.args[3], call.args[4])]
  /\ UNCHANGED <<snapVars, vpt, lastOp, viewVars, toolVars, engineVars, editorVars>>

\* centres of a second circle, the first one's centre being (0, 0): on the
\* axes and on the 3-4-5 diagonal, so that circles can touch
CircleCentres == {Pt(15 * p.x, 20 * p.y) : p \in GridPoints}

CircleRadii == {5 * k : k \in 1..(MaxCoord + 3)}

\* two circles are tested against each other
CallCircleCircleIntersections ==
  /\ call.fn = "circleCircleIntersections" /\ ~call.done
  /\ call' = [call EXCEPT !.done = TRUE,
                          !.out = circleCircleIntersections(call.args[1], call.args[2],
                                                            call.args[3], call.args[4])]
  /\ UNCHANGED <<snapVars, vpt, lastOp, viewVars, toolVars, engineVars, editorVars>>

\* computeSvgArcMidpoint on a radius as JavaScript passes it: <<"num", n>>,
\* <<"nan">> or <<"inf">>.  rx = Math.abs(Number(rx0) || 0) is 0 for NaN, and
\* the function returns null if rx is not finite or rx <= 0
svgArcMidpointOf(p0, p1, rx0, largeArcFlag, sweepFlag) ==
  IF rx0[1] # "num" THEN <<>>
  ELSE computeSvgArcMidpoint(p0, p1, rx0[2], largeArcFlag, sweepFlag)

\* the ends of drawn arcs, in tenths of a world unit, and their radii: half
\* circles, shorter arcs, and radii below half the chord
ArcStarts == {Pt(-50, 0), Pt(-30, -40)}

ArcEnds == {Pt(50 - 20 * p.x, 20 * p.y) : p \in GridPoints}

ArcRadii == {<<"num", 0>>, <<"num", 50>>, <<"num", 80>>, <<"nan">>, <<"inf">>}

\* the midpoint of an arc is asked for
CallComputeSvgArcMidpoint ==
  /\ call.fn = "computeSvgArcMidpoint" /\ ~call.done
  /\ call' = [call EXCEPT !.done = TRUE,
                          !.out = svgArcMidpointOf(call.args[1], call.args[2], call.args[3],
                                                   call.args[4], call.args[5])]
  /\ UNCHANGED <<snapVars, vpt, lastOp, viewVars, toolVars, engineVars, editorVars>>

\* addArcPathCandidates(pathObj, ptsOut) on an empty ptsOut, for the arc
\* object made from the path args[1]
CallAddArcPathCandidates ==
  /\ call.fn = "addArcPathCandidates" /\ ~call.done
  /\ call' = [call EXCEPT !.done = TRUE,
                          !.out = addArcPathCandidates(
                                    ArcObj(call.args[1]), 1,
                                    [pts |-> <<>>, segs |-> <<>>, circles |-> <<>>]).pts]
  /\ UNCHANGED <<snapVars, vpt, lastOp, viewVars, toolVars, engineVars, editorVars>>

\* candidates that can be in the list: points of lines and circles around
\* the pointer, one of them farther than the threshold
ListedCandidates ==
  {Cand(Pt(4, 0), "end", 1), Cand(Pt(2, 1), "half", 2), Cand(Pt(0, 3), "end", 3),
   Cand(Pt(-1, 2), "quadrant", 4), Cand(Pt(1, 0), "centre", 4), Cand(Pt(16, 0), "end", 5)}

\* the lists of up to MaxCoord different candidates, in every order
CandidateLists ==
  {q \in UNION {[1..n -> ListedCandidates] : n \in 0..MaxCoord} :
     \A i, j \in 1..Len(q) : i # j => q[i] # q[j]}

\* pickBestCandidate(pointerWorld) with no previous snap, on the cached
\* candidates call.args[2], under the identity viewport
CallPickBestCandidate ==
  /\ call.fn = "pickBestCandidate" /\ ~call.done
  /\ call' = [call EXCEPT !.done = TRUE,
                          !.out = pickBestCandidate(
                                    call.args[1],
                                    [pts |-> call.args[2], segs |-> <<>>, circles |-> <<>>],
                                    NoCand, IdentityVpt)]
  /\ UNCHANGED <<snapVars, vpt, lastOp, viewVars, toolVars, engineVars, editorVars>>

(* ------------------- the helpers, called with small inputs ------------- *)

PickCalls ==
  {Pending("pickBestCandidate", <<Pt(0, 0), q>>) : q \in CandidateLists}


ArcMidpointCalls ==
  {Pending("computeSvgArcMidpoint", <<p0, p1, rx0, laf, sf>>) :
     p0 \in ArcStarts, p1 \in ArcEnds, rx0 \in ArcRadii, laf \in {0, 1}, sf \in {0, 1}}

ArcPathCalls ==
  {Pending("addArcPathCandidates",
           <<<< <<"M", p0.x, p0.y>>, <<"A", r, r, 0, laf, sf, p1.x, p1.y>> >>>>) :
     p0 \in ArcStarts, p1 \in ArcEnds, r \in {0, 50, 80}, laf \in {0, 1}, sf \in {0, 1}}

\* the calls whose results are examined
SegmentBoxCalls ==
  {Pending("segmentIntersectsBox", <<a, b, box>>) :
     a \in GridPoints, b \in GridPoints, box \in SelectionBoxes}

FitCalls ==
  {Pending("fitToBounds", <<b, FitPadding, [InitialCvp EXCEPT !.rot = rot]>>) :
     b \in FitRects, rot \in FitRotations}

AngleSnapCalls ==
  UNION {{Pending("applyAngleSnap", <<o, p, stepDeg>>) : p \in PointersAround(o)} :
           o \in SnapOrigins, stepDeg \in SnapSteps}

LineCalls ==
  {Pending("lineIntersection", <<a, b, o[1], o[2]>>) :
     a \in DrawnPoints, b \in DrawnPoints, o \in OtherSegments}

\* the pointer is in the middle of the drawing
SegmentIxCalls ==
  {Pending("addSegmentIntersections",
           <<Pt(30, 30), <<[a |-> a, b |-> b, srcId |-> 1],
                           [a |-> o[1], b |-> o[2], srcId |-> 2]>> >>) :
     a \in DrawnPoints, b \in DrawnPoints, o \in OtherSegments}

LineCircleCalls ==
  {Pending("lineCircleIntersections", <<a, b, k.c, k.r>>) :
     a \in DrawnPoints, b \in DrawnPoints, k \in DrawnCircles}

CircleCircleCalls ==
  {Pending("circleCircleIntersections", <<Pt(0, 0), r0, c1, r1>>) :
     r0 \in CircleRadii, c1 \in CircleCentres, r1 \in CircleRadii}

\* circles of radius zero and of negative radius (addCircleCandidates passes
\* radius * max(|scaleX|, |scaleY|) on whatever it is), against the drawn
\* lines and against the circles
DegenerateRadii == {0, -10}

DegenerateCircleCalls ==
  {Pending("lineCircleIntersections", <<a, b, c, r>>) :
     a \in DrawnPoints, b \in {Pt(60, 20), Pt(60, 60)}, c \in {Pt(20, 20), Pt(30, 30)},
     r \in DegenerateRadii}
  \cup
  {Pending("circleCircleIntersections", <<Pt(0, 0), r0, c1, r1>>) :
     r0 \in DegenerateRadii, c1 \in CircleCentres, r1 \in CircleRadii \cup DegenerateRadii}

\* nothing but one helper runs: the editor stays as constructed
InitHelpers ==
  /\ objs = <<>>
  /\ edits = 0
  /\ enabled = TRUE
  /\ lastSnap = NoCand
  /\ cacheKey = <<>>
  /\ cache = EmptyCache
  /\ vpt = IdentityVpt
  /\ snapRes = NoRes
  /\ lastOp = "init"
  /\ app = "editor"
  /\ ViewInit
  /\ ToolInit
  /\ EngineCreated
  /\ EditorStarted
  /\ \/ call \in SegmentBoxCalls
     \/ call \in FitCalls
     \/ call \in AngleSnapCalls
     \/ call \in LineCalls
     \/ call \in SegmentIxCalls
     \/ call \in LineCircleCalls
     \/ call \in CircleCircleCalls
     \/ call \in DegenerateCircleCalls
     \/ call \in ArcMidpointCalls
     \/ call \in ArcPathCalls
     \/ call \in PickCalls

NextHelpers ==
  \/ CallSegmentIntersectsBox
  \/ CallFitToBounds
  \/ CallApplyAngleSnap
  \/ CallLineIntersection
  \/ CallAddSegmentIntersections
  \/ CallLineCircleIntersections
  \/ CallCircleCircleIntersections
  \/ CallComputeSvgArcMidpoint
  \/ CallAddArcPathCandidates
  \/ CallPickBestCandidate

SpecHelpers == InitHelpers /\ [][NextHelpers]_vars

(* ---------------------- properties: geometry helpers ------------------- *)

\* twice the signed area of the triangle p, q, r
Cross(p, q, r) == (q.x - p.x) * (r.y - p.y) - (q.y - p.y) * (r.x - p.x)

\* r lies within the bounding box of p and q
Between(p, q, r) ==
  /\ Min2(p.x, q.x) <= r.x /\ r.x <= Max2(p.x, q.x)
  /\ Min2(p.y, q.y) <= r.y /\ r.y <= Max2(p.y, q.y)

Sign(n) == IF n > 0 THEN 1 ELSE IF n < 0 THEN -1 ELSE 0

\* the closed segments p1 p2 and p3 p4 share a point
SegmentsMeet(p1, p2, p3, p4) ==
  LET d1 == Sign(Cross(p3, p4, p1))
      d2 == Sign(Cross(p3, p4, p2))
      d3 == Sign(Cross(p1, p2, p3))
      d4 == Sign(Cross(p1, p2, p4))
  IN \/ d1 * d2 < 0 /\ d3 * d4 < 0
     \/ d1 = 0 /\ Between(p3, p4, p1)
     \/ d2 = 0 /\ Between(p3, p4, p2)
     \/ d3 = 0 /\ Between(p1, p2, p3)
     \/ d4 = 0 /\ Between(p1, p2, p4)

\* the closed segment a b and the closed box share a point: an end lies in
\* the box, or the segment meets one of the box's four edges
SegmentMeetsBox(a, b, box) ==
  LET lo == Pt(Min2(box.x1, box.x2), Min2(box.y1, box.y2))
      hi == Pt(Max2(box.x1, box.x2), Max2(box.y1, box.y2))
  IN \/ Between(lo, hi, a)
     \/ Between(lo, hi, b)
     \/ SegmentsMeet(a, b, lo, Pt(hi.x, lo.y))
     \/ SegmentsMeet(a, b, Pt(hi.x, lo.y), hi)
     \/ SegmentsMeet(a, b, hi, Pt(lo.x, hi.y))
     \/ SegmentsMeet(a, b, Pt(lo.x, hi.y), lo)

\* C15: segmentIntersectsBox(a, b, box) is true exactly when the closed
\* segment a b and the closed box (corners in either order) share a point
C15_TrueIffShared ==
  (call.fn = "segmentIntersectsBox" /\ call.done) =>
    (call.out <=> SegmentMeetsBox(call.args[1], call.args[2], call.args[3]))

\* the four corners of a world rectangle
Corners(b) == {Pt(b.minX, b.minY), Pt(b.maxX, b.minY), Pt(b.maxX, b.maxY), Pt(b.minX, b.maxY)}

\* the screen point s lies in the canvas inset by the padding, to within one
\* pixel (screen points are in centi-pixels)
InPaddedCanvas(s, padding) ==
  /\ (padding - 1) * 100 <= s.x /\ s.x <= (FitCanvasW - padding + 1) * 100
  /\ (padding - 1) * 100 <= s.y /\ s.y <= (FitCanvasH - padding + 1) * 100

\* C16: after fitToBounds(bounds, padding) with positive ranges on a canvas
\* larger than twice the padding, toScreen maps every corner of the world
\* rectangle into the canvas inset by the padding, whatever the rotation of
\* the viewport
C16_CornersInPaddedCanvas ==
  (call.fn = "fitToBounds" /\ call.done) =>
    \A p \in Corners(call.args[1]) : InPaddedCanvas(toScreen(p, call.out), call.args[2])

\* the resolution of the fixed-point numbers of applyAngleSnap, in hundredths
\* of a world unit: cos and sin in thousandths, the length and the two
\* coordinates rounded to whole numbers
AngleSnapTol(len) == 2 + len \div 1000

\* v lies on the ray from the origin at angleDeg, a multiple of 45 degrees
OnRay(v, angleDeg) ==
  LET u == Pt(Sign(CosDeg(angleDeg)), Sign(SinDeg(angleDeg)))
  IN Wedge(u, v) = 0 /\ u.x * v.x + u.y * v.y >= 0

\* no multiple of stepDeg is nearer to the direction d than angleDeg: d has
\* no larger component along any other multiple's direction
NearestMultiple(d, angleDeg, stepDeg) ==
  \A k \in 0..((360 \div stepDeg) - 1) :
    CosDeg(angleDeg) * d.x + SinDeg(angleDeg) * d.y
      >= CosDeg(k * stepDeg) * d.x + SinDeg(k * stepDeg) * d.y

\* C17: applyAngleSnap(origin, pointer, {enabled: true, stepDeg}) returns a
\* point on the ray from the origin at the multiple of stepDeg nearest to the
\* direction origin -> pointer, as far from the origin as the pointer is, and
\* applying it to its own result gives that result again (distances to within
\* the resolution of the numbers)
C17_SnapsToNearestRay ==
  (call.fn = "applyAngleSnap" /\ call.done) =>
    LET o == call.args[1]
        p == call.args[2]
        stepDeg == call.args[3]
        d == Pt(p.x - o.x, p.y - o.y)
        v == Pt(call.out.x - o.x, call.out.y - o.y)
        len == Hypot(d.x, d.y)
    IN /\ \E k \in 0..((360 \div stepDeg) - 1) :
            OnRay(v, k * stepDeg) /\ NearestMultiple(d, k * stepDeg, stepDeg)
       /\ Abs(Hypot(v.x, v.y) - len) <= AngleSnapTol(len)
       /\ AxisGap(applyAngleSnap(o, call.out, TRUE, stepDeg), call.out) <= AngleSnapTol(len)

\* the pointer was off every multiple of the step, in the lower half plane,
\* and the call moved it
C17_SnappedOffAxis ==
  /\ call.fn = "applyAngleSnap" /\ call.done
  /\ call.args[3] = 45
  /\ call.args[2].y < call.args[1].y
  /\ call.out # call.args[2]
  /\ call.out.x # call.args[1].x /\ call.out.y # call.args[1].y

\* p is the common point of the segments a b and c d, rounded to whole world
\* units: it is within both segments' boxes and within half a unit per axis
\* of both lines
RoundedCrossing(p, a, b, c, d) ==
  /\ Between(a, b, p) /\ Between(c, d, p)
  /\ 2 * Abs(Cross(a, b, p)) <= Abs(b.x - a.x) + Abs(b.y - a.y)
  /\ 2 * Abs(Cross(c, d, p)) <= Abs(d.x - c.x) + Abs(d.y - c.y)

\* the two segments are parallel or colinear
Parallel(a, b, c, d) == (b.x - a.x) * (d.y - c.y) - (b.y - a.y) * (d.x - c.x) = 0

\* C18: lineIntersection returns null for parallel or colinear segments and
\* for segments whose lines cross outside one of them, and the one common
\* point otherwise; addSegmentIntersections then gives, for two crossing
\* segments and a pointer within the threshold of the crossing, exactly one
\* "intersection" candidate, at that point, and never more than one
C18_OneCrossingPoint ==
  /\ (call.fn = "lineIntersection" /\ call.done) =>
       LET a == call.args[1]
           b == call.args[2]
           c == call.args[3]
           d == call.args[4]
       IN IF Parallel(a, b, c, d) \/ ~SegmentsMeet(a, b, c, d)
          THEN call.out = <<>>
          ELSE Len(call.out) = 1 /\ RoundedCrossing(call.out[1], a, b, c, d)
  /\ (call.fn = "addSegmentIntersections" /\ call.done) =>
       LET s1 == call.args[2][1]
           s2 == call.args[2][2]
           ip == lineIntersection(s1.a, s1.b, s2.a, s2.b)
           near == /\ ip # <<>>
                   /\ distPx(TransformPoint(ip[1], IdentityVpt),
                             TransformPoint(call.args[1], IdentityVpt))
                        <= getSnapThresholdScreenPx
       IN IF near THEN call.out = <<Cand(ip[1], "intersection", IxId)>>
          ELSE call.out = <<>>

\* two segments cross strictly inside both, away from every grid point, and
\* the pointer is near enough for the candidate
C18_CrossingOffered ==
  /\ call.fn = "addSegmentIntersections" /\ call.done
  /\ Len(call.out) = 1
  /\ call.out[1].x % 20 # 0
  /\ \A s \in {call.args[2][1], call.args[2][2]} :
       /\ Cand(s.a, "intersection", IxId) # call.out[1]
       /\ Cand(s.b, "intersection", IxId) # call.out[1]

\* the line through a and b touches the circle (c, r), and touches it within
\* the segment: the centre is r away from the line and its foot on the line
\* is between a and b
TouchesWithin(a, b, c, r) ==
  LET len2 == (b.x - a.x) * (b.x - a.x) + (b.y - a.y) * (b.y - a.y)
      along == (c.x - a.x) * (b.x - a.x) + (c.y - a.y) * (b.y - a.y)
  IN /\ len2 > 0
     /\ Cross(a, b, c) * Cross(a, b, c) = r * r * len2
     /\ 0 <= along /\ along <= len2

\* p is on the circle (c, r) to within the rounding of the square root and of
\* the coordinates
OnCircle(p, c, r) == Abs(Hypot(p.x - c.x, p.y - c.y) - r) <= 2

\* C19: lineCircleIntersections (radius > 0) returns exactly one point for a
\* segment that touches the circle, and in every case at most two points, each on the
\* segment (parameter in [0, 1]) and on the circle
C19_TangentGivesOnePoint ==
  (call.fn = "lineCircleIntersections" /\ call.done /\ call.args[4] > 0) =>
    LET a == call.args[1]
        b == call.args[2]
        c == call.args[3]
        r == call.args[4]
    IN /\ TouchesWithin(a, b, c, r) => Len(call.out) = 1
       /\ Len(call.out) <= 2
       /\ \A i \in 1..Len(call.out) :
            /\ Between(a, b, call.out[i])
            /\ 2 * Abs(Cross(a, b, call.out[i])) <= Abs(b.x - a.x) + Abs(b.y - a.y)
            /\ OnCircle(call.out[i], c, r)

\* a segment touched the circle away from its ends and one point came back
C19_TouchingSegment ==
  /\ call.fn = "lineCircleIntersections" /\ call.done
  /\ TouchesWithin(call.args[1], call.args[2], call.args[3], call.args[4])
  /\ Len(call.out) = 1
  /\ call.out[1] \notin {call.args[1], call.args[2]}

\* C20: circleCircleIntersections (radii > 0) returns no point for circles that are apart
\* (d > r0 + r1), for one strictly inside the other (d < |r0 - r1|) and for
\* concentric circles, and exactly one point, r0 away from the first centre
\* towards or away from the second, for circles that touch (d = r0 + r1 or
\* d = |r0 - r1| > 0)
C20_TouchingGivesOnePoint ==
  (call.fn = "circleCircleIntersections" /\ call.done
     /\ call.args[2] > 0 /\ call.args[4] > 0) =>
    LET c0 == call.args[1]
        r0 == call.args[2]
        c1 == call.args[3]
        r1 == call.args[4]
        dd == (c1.x - c0.x) * (c1.x - c0.x) + (c1.y - c0.y) * (c1.y - c0.y)
        apart == dd > (r0 + r1) * (r0 + r1)
        inside == dd < (r0 - r1) * (r0 - r1)
        touching == dd > 0 /\ (dd = (r0 + r1) * (r0 + r1) \/ dd = (r0 - r1) * (r0 - r1))
    IN /\ (apart \/ inside \/ dd = 0) => call.out = <<>>
       /\ touching =>
            /\ Len(call.out) = 1
            /\ Cross(c0, c1, call.out[1]) = 0
            /\ OnCircle(call.out[1], c0, r0) /\ OnCircle(call.out[1], c1, r1)

\* two circles whose centres are on no common axis touched from outside
C20_TouchingOffAxis ==
  /\ call.fn = "circleCircleIntersections" /\ call.done
  /\ call.args[3].x # 0 /\ call.args[3].y # 0
  /\ call.args[3].x * call.args[3].x + call.args[3].y * call.args[3].y
       = (call.args[2] + call.args[4]) * (call.args[2] + call.args[4])
  /\ Len(call.out) = 1

(* --------------------- properties: degenerate circles ------------------ *)

\* C21: for a circle whose radius is zero or negative, lineCircleIntersections
\* and circleCircleIntersections return the empty array
C21_NoPointForDegenerateCircle ==
  /\ (call.fn = "lineCircleIntersections" /\ call.done /\ call.args[4] <= 0) =>
       call.out = <<>>
  /\ (call.fn = "circleCircleIntersections" /\ call.done
        /\ (call.args[2] <= 0 \/ call.args[4] <= 0)) =>
       call.out = <<>>

(* ------------------------ properties: arc midpoint --------------------- *)

\* m is the midpoint of the arc from p0 to p1 of radius r0 (raised to half
\* the chord if smaller) with the given flags: m is as far from p0 as from
\* p1; its distance s from the chord satisfies s (2R - s) = (chord / 2)^2, as
\* for every point of a circle of radius R; s <= R for the small arc and
\* s >= R for the large one; and m is on the left of p0 -> p1 (in x-right,
\* y-up terms) for sweep flag 0, on the right for 1.  All to within the
\* rounding of m to whole units
IsArcMidpoint(m, p0, p1, r0, largeArcFlag, sweepFlag) ==
  LET q == (p0.x - p1.x) * (p0.x - p1.x) + (p0.y - p1.y) * (p0.y - p1.y)
      twoR == Max2(2 * r0, ISqrt(q))
      twoS == Hypot(2 * m.x - p0.x - p1.x, 2 * m.y - p0.y - p1.y)
  IN /\ Abs(Hypot(m.x - p0.x, m.y - p0.y) - Hypot(m.x - p1.x, m.y - p1.y)) <= 2
     /\ Abs(twoS * (2 * twoR - twoS) - q) <= 4 * twoR + 4
     /\ IF largeArcFlag = 0 THEN twoS <= twoR + 2 ELSE twoS >= twoR - 2
     /\ IF sweepFlag = 0 THEN Cross(p0, p1, m) > 0 ELSE Cross(p0, p1, m) < 0

\* C22: computeSvgArcMidpoint returns null for a radius that is zero or not
\* finite and the midpoint of the arc otherwise, and the "half" candidate the
\* extractor emits for an arc path of positive radius is that midpoint
C22_HalfIsArcMidpoint ==
  /\ (call.fn = "computeSvgArcMidpoint" /\ call.done) =>
       IF call.args[3][1] # "num" \/ call.args[3][2] = 0 THEN call.out = <<>>
       ELSE /\ Len(call.out) = 1
            /\ IsArcMidpoint(call.out[1], call.args[1], call.args[2], call.args[3][2],
                             call.args[4], call.args[5])
  /\ (call.fn = "addArcPathCandidates" /\ call.done /\ call.args[1][2][2] > 0) =>
       LET M == call.args[1][1]
           A == call.args[1][2]
           halves == {i \in 1..Len(call.out) : call.out[i].kind = "half"}
       IN /\ Cardinality(halves) = 1
          /\ \A i \in halves :
               IsArcMidpoint(call.out[i], Pt(M[2], M[3]), Pt(A[7], A[8]), A[2], A[5], A[6])

\* the half circle from (-5, 0) to (5, 0) of radius 5 through (0, 5), in
\* tenths of a unit: the extractor's "half" candidate is at (0, 5)
C22_HalfCircleThroughTop ==
  /\ call.fn = "addArcPathCandidates" /\ call.done
  /\ call.args[1] = << <<"M", -50, 0>>, <<"A", 50, 50, 0, 0, 0, 50, 0>> >>
  /\ \E i \in 1..Len(call.out) :
       call.out[i].kind = "half" /\ call.out[i].x = 0 /\ call.out[i].y = 50

(* ---------------------- properties: choice of candidate ---------------- *)

\* the score of candidate c for a pointer at the origin, under the identity
\* viewport
ScoreAtOrigin(c) ==
  Score(distPx(TransformPoint(c, IdentityVpt), Pt(0, 0)), c.kind)

\* the candidates of list q within the threshold of a pointer at the origin
WithinThreshold(q) ==
  {i \in 1..Len(q) :
     distPx(TransformPoint(q[i], IdentityVpt), Pt(0, 0)) <= getSnapThresholdScreenPx}

\* C23: with no previous snap, the candidate chosen by pickBestCandidate has
\* the minimum score among the candidates within the threshold of the
\* pointer, and every order of the same candidates gives the same choice
C23_MinimumScoreAnyOrder ==
  (call.fn = "pickBestCandidate" /\ call.done) =>
    LET q == call.args[2]
    IN /\ WithinThreshold(q) = {} => call.out = NoCand
       /\ WithinThreshold(q) # {} =>
            /\ \E i \in WithinThreshold(q) : q[i] = call.out
            /\ \A i \in WithinThreshold(q) : ScoreAtOrigin(call.out) <= ScoreAtOrigin(q[i])
       /\ \A o \in CandidateLists :
            {o[i] : i \in 1..Len(o)} = {q[i] : i \in 1..Len(q)} =>
              pickBestCandidate(call.args[1], [pts |-> o, segs |-> <<>>, circles |-> <<>>],
                                NoCand, IdentityVpt) = call.out

(* ------------------- properties: origin of the target ------------------ *)

\* the candidates the objects now on the canvas give at world point p: the
\* static candidates of the snappable objects and their intersections near p
DerivableAt(p) ==
  LET ex == getCandidatesSegmentsCirclesWorld(objs)
  IN DynamicCandidates(TransformPoint(p, vpt),
                       [pts |-> ex.pts, segs |-> ex.segs, circles |-> ex.circles], vpt)

\* C24: the target of a snap query that returns snapped:true is at a
\* candidate of the objects that are on the canvas and snappable at the call
C24_TargetFromCurrentObjects ==
  (lastOp = "snap" /\ snapRes.snapped) =>
    \E k \in 1..Len(DerivableAt(snapRes.target)) :
       /\ DerivableAt(snapRes.target)[k].x = snapRes.target.x
       /\ DerivableAt(snapRes.target)[k].y = snapRes.target.y

(* --------------------- the editor's rotate button ---------------------- *)

\* getPivotWorld(editor) at the moment of a click: the centre of the plan
\* sheet, which the user can have moved since the click before
SheetCentres == {Pt(30, 20), Pt(0, 0), Pt(50, 10)}

\* Editor.rotateView(): rotateViewClockwiseAnimated(this), a quarter turn
\* clockwise about the pivot
RotateView == \E p \in SheetCentres : RotateViewByAnimated(90, p)

\* the editor, started with the camera unturned
InitRotate == InitView /\ app = "editor"

\* the rotate button and the frames of its animation
NextRotate ==
  \/ RotateView
  \/ \E f \in frames, gap \in FrameGaps : Tick(f, gap)

SpecRotate == InitRotate /\ [][NextRotate]_vars

(* --------------------- properties: quarter turns ----------------------- *)

\* C25: with only Editor.rotateView() invoked, at any moments, the camera
\* angle is a multiple of 90 degrees whenever the animator is idle
C25_IdleAtQuarterTurn ==
  (rotAnimRaf = 0 /\ frames = {}) => angleFromVpt(vpt) % 90 = 0

(* ------------------------- the editor's plan levels -------------------- *)

\* String(v || "").trim() on the values handed in as level ids: null, blank
\* and padded strings among them
Trimmed(v) ==
  CASE v = NoLevel -> ""
    [] v = " L1 " -> "L1"
    [] v = "  " -> ""
    [] OTHER -> v

\* whether list contains id (Array.prototype.includes)
Includes(list, id) == \E i \in 1..Len(list) : list[i] = id

\* Editor.getPlanLevelsState()
getPlanLevelsState ==
  [primary |-> IF planLevels.primary # "" THEN planLevels.primary ELSE "L0",
   overlay |-> IF planLevels.overlay # NoLevel /\ planLevels.overlay # ""
               THEN planLevels.overlay ELSE NoLevel,
   levels |-> IF Len(planLevels.levels) > 0 THEN planLevels.levels ELSE <<"L0">>]

\* the editor's state outside the plan levels stays as it is
PlanLevelsSet(pl) ==
  /\ planLevels' = pl
  /\ lastOp' = "planLevels"
  /\ UNCHANGED <<call, engineVars, hasInit, activated, snapVars, vpt, viewVars, toolVars>>

\* Editor.setPlanLevelsList(levelIds), levelIds an array
setPlanLevelsList(levelIds) ==
  LET cleaned == SelectSeq([i \in 1..Len(levelIds) |-> Trimmed(levelIds[i])],
                           LAMBDA v : v # "")
      pl == getPlanLevelsState
  IN /\ Len(cleaned) > 0
     /\ PlanLevelsSet(
          [levels |-> cleaned,
           primary |-> IF Includes(cleaned, pl.primary) THEN pl.primary ELSE cleaned[1],
           overlay |-> IF pl.overlay # NoLevel /\ ~Includes(cleaned, pl.overlay)
                       THEN NoLevel ELSE pl.overlay])

\* Editor.setPrimaryPlanLevel(levelId)
setPrimaryPlanLevel(levelId) ==
  LET id == Trimmed(levelId)
      pl == getPlanLevelsState
  IN /\ id # ""
     /\ PlanLevelsSet(
          [levels |-> IF Includes(pl.levels, id) THEN pl.levels ELSE Append(pl.levels, id),
           primary |-> id,
           overlay |-> IF pl.overlay = id THEN NoLevel ELSE pl.overlay])

\* Editor.setOverlayPlanLevel(levelIdOrNoLevel)
setOverlayPlanLevel(levelIdOrNoLevel) ==
  LET id == Trimmed(levelIdOrNoLevel)
      pl == getPlanLevelsState
  IN IF id = ""
     THEN PlanLevelsSet([pl EXCEPT !.overlay = NoLevel])
     ELSE PlanLevelsSet(
            [levels |-> IF Includes(pl.levels, id) THEN pl.levels ELSE Append(pl.levels, id),
             primary |-> pl.primary,
             overlay |-> IF id = pl.primary THEN NoLevel ELSE id])

\* the values callers hand in as a level id
LevelIds == {"L0", "L1", "L9", " L1 ", "  ", NoLevel}

\* the arrays callers hand to setPlanLevelsList
LevelLists == UNION {[1..n -> LevelIds] : n \in 0..2}

InitPlan == InitTools

NextPlan ==
  \/ \E levelIds \in LevelLists : setPlanLevelsList(levelIds)
  \/ \E levelId \in LevelIds : setPrimaryPlanLevel(levelId)
  \/ \E levelIdOrNoLevel \in LevelIds : setOverlayPlanLevel(levelIdOrNoLevel)

SpecPlan == InitPlan /\ [][NextPlan]_vars

(* ------------------------ properties: plan levels ---------------------- *)

\* C28: after any sequence of setPlanLevelsList, setPrimaryPlanLevel and
\* setOverlayPlanLevel calls the primary level is in the level list, the
\* overlay level is null or in the list, and the overlay is not the primary
C28_PlanLevelsConsistent ==
  /\ Includes(planLevels.levels, planLevels.primary)
  /\ planLevels.overlay # NoLevel => Includes(planLevels.levels, planLevels.overlay)
  /\ planLevels.overlay # planLevels.primary

(* ------------------------ the editor's tool switch --------------------- *)

\* Editor.init(): sets _hasInit, builds the tools and calls setMode("select"),
\* which returns at once when select is the active tool id already
EditorInit ==
  /\ ~hasInit
  /\ hasInit' = TRUE
  /\ activeToolId' = "select"
  /\ activated' = IF activeToolId = "select" THEN activated
                  ELSE (activated \ {activeToolId}) \cup {"select"}
  /\ lastOp' = "init"
  /\ UNCHANGED <<call, engineVars, planLevels, snapVars, vpt, viewVars, referenceLine, tools,
                 inputs>>

\* Editor.setMode(toolId) with an id that is not in editor.tools or is the
\* active tool id: it returns before it calls anything
SetModeReturns(toolId) ==
  /\ hasInit
  /\ toolId \notin ToolIds \/ toolId = activeToolId
  /\ inputs < MaxInputs
  /\ inputs' = inputs + 1
  /\ lastOp' = "setMode"
  /\ UNCHANGED <<call, engineVars, editorVars, snapVars, vpt, viewVars, activeToolId,
                 referenceLine, tools>>

\* the editor page from its constructor on
InitModes ==
  /\ objs = <<>>
  /\ edits = 0
  /\ enabled = TRUE
  /\ lastSnap = NoCand
  /\ cacheKey = <<>>
  /\ cache = EmptyCache
  /\ vpt = IdentityVpt
  /\ snapRes = NoRes
  /\ lastOp = "new"
  /\ app = "editor"
  /\ ViewInit
  /\ ToolInit
  /\ EngineCreated
  /\ EditorConstructed
  /\ call = NoCall

\* init() first, then the toolbar, the pointer and the keys
NextModes ==
  \/ EditorInit
  \/ \E toolId \in ToolIds \cup {"measure"} : SetModeReturns(toolId)
  \/ hasInit /\ NextTools

SpecModes == InitModes /\ [][NextModes]_vars

(* ------------------------ properties: active tool ---------------------- *)

\* C27: once Editor.init has run, the active tool, and no other tool, has had
\* its onActivate called more recently than its onDeactivate
C27_ActiveToolActivated == hasInit => activated = {activeToolId}

(* --------------------------- the canvas engine ------------------------- *)

\* utils/math.js: pixel distances of the snap, the grips, the hit test and
\* the closing of a loop, and the grid spacing in mm
SNAP_DIST == 10

HANDLE_SIZE == 6

HIT_TOLERANCE == 5

CLOSE_LOOP_THRESHOLD == 10

GRID_SPACING == 1000

\* px / viewport.getScale(): a pixel distance in world units
InWorld(px) == (px * 10000) \div cvp.scale

\* distance(a, b), rounded down
distance(a, b) == Hypot(a.x - b.x, a.y - b.y)

\* pointToSegmentDistance(p, a, b), rounded down
pointToSegmentDistance(p, a, b) ==
  LET dx == b.x - a.x
      dy == b.y - a.y
      l2 == dx * dx + dy * dy
      dot == (p.x - a.x) * dx + (p.y - a.y) * dy
  IN IF l2 = 0 \/ dot <= 0 THEN distance(p, a)
     ELSE IF dot >= l2 THEN distance(p, b)
     ELSE Abs((p.x - a.x) * dy - (p.y - a.y) * dx) \div ISqrt(l2)

\* lineInBox(line, box, false): every point of the line is inside the box
lineInBox(line, box) ==
  \A k \in 1..Len(line) :
     /\ line[k].x >= Min2(box.x1, box.x2) /\ line[k].x <= Max2(box.x1, box.x2)
     /\ line[k].y >= Min2(box.y1, box.y2) /\ line[k].y <= Max2(box.y1, box.y2)

\* snapToGrid(worldPoint, spacing)
snapToGrid(w) ==
  Pt(RoundDiv(w.x, GRID_SPACING) * GRID_SPACING, RoundDiv(w.y, GRID_SPACING) * GRID_SPACING)

\* the sheets of getSheetLayout() as hitTestSheet reads them: paperLeftMm,
\* paperTopMm and the right and bottom edges, in tenths of a mm
Sheets ==
  << [id |-> "plan", left |-> -2160, top |-> -1545, right |-> 2160, bottom |-> 1545],
     [id |-> "front", left |-> -2160, top |-> -6045, right |-> 2160, bottom |-> -2955],
     [id |-> "back", left |-> -2160, top |-> 2955, right |-> 2160, bottom |-> 6045],
     [id |-> "left", left |-> -6045, top |-> -2160, right |-> -2955, bottom |-> 2160],
     [id |-> "right", left |-> 2955, top |-> -2160, right |-> 6045, bottom |-> 2160] >>

\* the first index of seq whose element passes Test, 0 when none does
FirstIndex(seq, Test(_)) ==
  IF \E i \in 1..Len(seq) : Test(seq[i])
  THEN CHOOSE i \in 1..Len(seq) : Test(seq[i]) /\ \A j \in 1..(i - 1) : ~Test(seq[j])
  ELSE 0

\* hitTestSheet(sheets, worldMm): the id of the first sheet that holds the
\* point, "" when none does
hitTestSheet(w) ==
  LET Holds(s) == /\ 10 * w.x >= s.left /\ 10 * w.x <= s.right
                  /\ 10 * w.y >= s.top /\ 10 * w.y <= s.bottom
      k == FirstIndex(Sheets, Holds)
  IN IF k = 0 THEN "" ELSE Sheets[k].id

\* the segments { polyline, segmentIndex } of the polylines ids, in the order
\* "for (const line of polylines) for (let i = 0; i < line.length - 1; i++)"
RECURSIVE SegmentsOf(_, _, _)
SegmentsOf(ar, ids, k) ==
  IF k > Len(ids) THEN <<>>
  ELSE [i \in 1..(Len(ar[ids[k]]) - 1) |-> [polyline |-> ids[k], segmentIndex |-> i - 1]]
       \o SegmentsOf(ar, ids, k + 1)

\* polyline[j] of the array a segment or a grip refers to
PointAt(ar, id, j) == ar[id][j + 1]

\* findSnap(worldMouse): state.snapPoint and state.snapType after the call.
\* The snap point is kept by value, while the code keeps the point object of
\* the polyline it snapped to.
findSnap(worldMouse, ar, ids, toolId, current) ==
  LET tol == InWorld(SNAP_DIST)
      segs == SegmentsOf(ar, ids, 1)
      A(sg) == PointAt(ar, sg.polyline, sg.segmentIndex)
      B(sg) == PointAt(ar, sg.polyline, sg.segmentIndex + 1)
      Mid(sg) == Pt((A(sg).x + B(sg).x) \div 2, (A(sg).y + B(sg).y) \div 2)
      Snaps(sg) == \/ distance(worldMouse, A(sg)) < tol
                   \/ distance(worldMouse, B(sg)) < tol
                   \/ distance(worldMouse, Mid(sg)) < tol
      k == FirstIndex(segs, Snaps)
      grid == snapToGrid(worldMouse)
  IN IF toolId = "line" /\ Len(current) >= 2 /\ distance(worldMouse, current[1]) < tol
     THEN [snapPoint |-> current[1], snapType |-> "Start"]
     ELSE IF k # 0
     THEN IF distance(worldMouse, A(segs[k])) < tol
          THEN [snapPoint |-> A(segs[k]), snapType |-> "End"]
          ELSE IF distance(worldMouse, B(segs[k])) < tol
          THEN [snapPoint |-> B(segs[k]), snapType |-> "End"]
          ELSE [snapPoint |-> Mid(segs[k]), snapType |-> "Mid"]
     ELSE IF distance(worldMouse, grid) < tol
     THEN [snapPoint |-> grid, snapType |-> "Grid"]
     ELSE [snapPoint |-> Null, snapType |-> Null]

\* what a handler of a tool leaves behind: the engine's state, the polyline
\* arrays and the closure variables of the select and the line tool
Engine(st, ar, sel, cur) == [state |-> st, arrays |-> ar, selectTool |-> sel, lineTool |-> cur]

\* whether selection holds the segment sg
IsSelected(selection, sg) == \E i \in 1..Len(selection) : selection[i] = sg

\* every segment of the selection moved by (dx, dy) from where the drag
\* found it, segment k onward
RECURSIVE DragSegments(_, _, _, _, _, _)
DragSegments(ar, selection, orig, dx, dy, k) ==
  IF k > Len(selection) THEN ar
  ELSE LET id == selection[k].polyline
           j == selection[k].segmentIndex
           moved == IF j < Len(ar[id]) - 1
                    THEN [ar EXCEPT ![id][j + 1] = Pt(orig[k].start.x + dx, orig[k].start.y + dy),
                                    ![id][j + 2] = Pt(orig[k].end.x + dx, orig[k].end.y + dy)]
                    ELSE ar
       IN DragSegments(moved, selection, orig, dx, dy, k + 1)

\* the grips of the selection: the end points of its segments as
\* { polyline, index }, in the order the Set selectedPoints lists them
SelectedPoints(ar, selection) ==
  LET both == [n \in 1..(2 * Len(selection)) |->
                 [polyline |-> selection[(n + 1) \div 2].polyline,
                  index |-> selection[(n + 1) \div 2].segmentIndex + ((n + 1) % 2)]]
      InRange(h) == h.index < Len(ar[h.polyline])
  IN SelectSeq(both, InRange)

\* createSelectTool.onMouseMove(ctx)
SelectOnMouseMove(e, worldMouse) ==
  LET sel == e.selectTool
      selection == e.state.selectedSegments
      grips == SelectedPoints(e.arrays, selection)
      NearGrip(h) == distance(worldMouse, PointAt(e.arrays, h.polyline, h.index))
                       < InWorld(HANDLE_SIZE)
      g == FirstIndex(grips, NearGrip)
      segs == SegmentsOf(e.arrays, e.state.polylines, 1)
      Hit(sg) == pointToSegmentDistance(worldMouse,
                                        PointAt(e.arrays, sg.polyline, sg.segmentIndex),
                                        PointAt(e.arrays, sg.polyline, sg.segmentIndex + 1))
                   < InWorld(HIT_TOLERANCE)
      h == FirstIndex(segs, Hit)
  IN IF sel.isDragging
     THEN [e EXCEPT !.arrays = DragSegments(e.arrays, selection, sel.dragOriginalSegments,
                                            worldMouse.x - sel.dragStartWorld.x,
                                            worldMouse.y - sel.dragStartWorld.y, 1)]
     ELSE IF sel.activeHandle # Null
     THEN [e EXCEPT !.arrays[sel.activeHandle.polyline][sel.activeHandle.index + 1] =
                      worldMouse]
     ELSE IF sel.isSelecting
     THEN [e EXCEPT !.selectTool.selectEnd = worldMouse]
     ELSE IF g # 0
     THEN [e EXCEPT !.selectTool.hoveredHandle = grips[g]]
     ELSE [e EXCEPT !.selectTool.hoveredHandle = Null,
                    !.selectTool.hoveredSegment = IF h # 0 THEN segs[h] ELSE Null]

\* createSelectTool.onMouseDown(ctx)
SelectOnMouseDown(e, worldMouse) ==
  LET sel == e.selectTool
      selection == e.state.selectedSegments
  IN IF sel.hoveredHandle # Null
     THEN [e EXCEPT !.selectTool.activeHandle = sel.hoveredHandle]
     ELSE IF sel.hoveredSegment # Null /\ IsSelected(selection, sel.hoveredSegment)
     THEN [e EXCEPT !.selectTool.isDragging = TRUE,
                    !.selectTool.dragStartWorld = worldMouse,
                    !.selectTool.dragOriginalSegments =
                       [k \in 1..Len(selection) |->
                          [start |-> PointAt(e.arrays, selection[k].polyline,
                                             selection[k].segmentIndex),
                           end |-> PointAt(e.arrays, selection[k].polyline,
                                           selection[k].segmentIndex + 1)]]]
     ELSE [e EXCEPT !.selectTool.isSelecting = TRUE,
                    !.selectTool.selectStart = worldMouse,
                    !.selectTool.selectEnd = Null]

\* the segments a selection box takes: the ones that cross it when it was
\* dragged to the left or upwards, else the ones of the polylines inside it
BoxSelection(ar, ids, box) ==
  LET segs == SegmentsOf(ar, ids, 1)
      Crosses(sg) == segmentIntersectsBox(PointAt(ar, sg.polyline, sg.segmentIndex),
                                          PointAt(ar, sg.polyline, sg.segmentIndex + 1), box)
      Within(sg) == lineInBox(ar[sg.polyline], box)
  IN IF box.x2 < box.x1 \/ box.y2 < box.y1 THEN SelectSeq(segs, Crosses)
     ELSE SelectSeq(segs, Within)

\* createSelectTool.onMouseUp(ctx): the state after it and what it returns
SelectOnMouseUp(e) ==
  LET sel == e.selectTool
      box == [x1 |-> sel.selectStart.x, y1 |-> sel.selectStart.y,
              x2 |-> sel.selectEnd.x, y2 |-> sel.selectEnd.y]
  IN IF sel.activeHandle # Null
     THEN [e |-> [e EXCEPT !.selectTool.activeHandle = Null], ret |-> TRUE]
     ELSE IF sel.isDragging
     THEN [e |-> [e EXCEPT !.selectTool.isDragging = FALSE,
                           !.selectTool.dragOriginalSegments = Null], ret |-> TRUE]
     ELSE IF ~sel.isSelecting \/ sel.selectEnd = Null
     THEN [e |-> [e EXCEPT !.selectTool.isSelecting = FALSE], ret |-> FALSE]
     ELSE [e |-> [e EXCEPT !.state.selectedSegments =
                              BoxSelection(e.arrays, e.state.polylines, box),
                           !.selectTool.isSelecting = FALSE,
                           !.selectTool.selectStart = Null,
                           !.selectTool.selectEnd = Null,
                           !.selectTool.didJustFinishBoxSelect = TRUE],
           ret |-> TRUE]

\* createSelectTool.onClick(ctx): the state after it and what it returns
SelectOnClick(e, shiftKey) ==
  LET sel == e.selectTool
      selection == e.state.selectedSegments
      NotHovered(sg) == sg # sel.hoveredSegment
  IN IF sel.didJustFinishBoxSelect
     THEN [e |-> [e EXCEPT !.selectTool.didJustFinishBoxSelect = FALSE], ret |-> TRUE]
     ELSE IF sel.isSelecting \/ sel.isDragging \/ sel.activeHandle # Null
     THEN [e |-> e, ret |-> FALSE]
     ELSE IF sel.hoveredSegment = Null
     THEN [e |-> e, ret |-> FALSE]
     ELSE IF ~shiftKey
     THEN [e |-> [e EXCEPT !.state.selectedSegments = <<sel.hoveredSegment>>], ret |-> TRUE]
     ELSE IF IsSelected(selection, sel.hoveredSegment)
     THEN [e |-> [e EXCEPT !.state.selectedSegments = SelectSeq(selection, NotHovered)],
           ret |-> TRUE]
     ELSE [e |-> [e EXCEPT !.state.selectedSegments = Append(selection, sel.hoveredSegment)],
           ret |-> TRUE]

\* createLineTool.onClick(ctx): it returns true always.  The angle snapping
\* it applies when getSnap() is null and a point is placed is left out:
\* after the first mouse move over the canvas state.snapPoint is never null,
\* every point being within SNAP_DIST / scale of a grid point.
LineOnClick(e, worldMouse) ==
  LET current == e.lineTool
      p == IF e.state.snapPoint # Null THEN e.state.snapPoint ELSE worldMouse
      cleared == [e.state EXCEPT !.selectedSegments = <<>>]
  IN IF Len(current) >= 2 /\ distance(p, current[1]) < InWorld(CLOSE_LOOP_THRESHOLD)
     THEN [e EXCEPT !.state = [cleared EXCEPT !.polylines = Append(@, Len(e.arrays) + 1)],
                    !.arrays = Append(@, Append(current, current[1])),
                    !.lineTool = <<>>]
     ELSE [e EXCEPT !.state = cleared, !.lineTool = Append(current, p)]

\* enforceIdentityAndOrdering(model, plan), in tenths of a mm
enforceIdentityAndOrdering(model) ==
  LET l1 == Max2(Min2(model.left, -20), -1485)
      r1 == Min2(Max2(model.right, 20), 1485)
      b1 == Max2(Min2(model.back, -20), -1050)
      f1 == Min2(Max2(model.front, 20), 1050)
      l2 == IF l1 > r1 - 100 THEN r1 - 100 ELSE l1
      b2 == IF b1 > f1 - 100 THEN f1 - 100 ELSE b1
  IN [left |-> Min2(l2, -20), right |-> Max2(r1, 20),
      back |-> Min2(b2, -20), front |-> Max2(f1, 20)]

\* applyKeyRefDrag(key, worldX, worldY, model, sheets, pad)
applyKeyRefDrag(key, w, model) ==
  enforceIdentityAndOrdering(
    IF key \in {"left", "right"} THEN [model EXCEPT ![key] = 10 * w.x]
    ELSE [model EXCEPT ![key] = 10 * w.y])

\* getKeyRefHandlePositions(sheets, model, pad) to the nearest mm: the grips
\* of left and right sit midway between the plan's bottom edge and the
\* front sheet's top edge (y = -225) and between the plan's top edge and the
\* back sheet's bottom edge (y = 225), the ones of front and back midway
\* between the plan and the right sheet (x = 255.75) and the left sheet
KeyRefHandlePositions(model) ==
  << [key |-> "left", isSecondary |-> FALSE, x |-> RoundDiv(model.left, 10), y |-> -225],
     [key |-> "left", isSecondary |-> TRUE, x |-> RoundDiv(model.left, 10), y |-> 225],
     [key |-> "right", isSecondary |-> FALSE, x |-> RoundDiv(model.right, 10), y |-> -225],
     [key |-> "right", isSecondary |-> TRUE, x |-> RoundDiv(model.right, 10), y |-> 225],
     [key |-> "front", isSecondary |-> FALSE, x |-> 256, y |-> RoundDiv(model.front, 10)],
     [key |-> "front", isSecondary |-> TRUE, x |-> -256, y |-> RoundDiv(model.front, 10)],
     [key |-> "back", isSecondary |-> FALSE, x |-> 256, y |-> RoundDiv(model.back, 10)],
     [key |-> "back", isSecondary |-> TRUE, x |-> -256, y |-> RoundDiv(model.back, 10)] >>

\* hitTestKeyRefHandle(screenX, screenY): the first grip within
\* Math.max(12, 9.5 * scale) px of the pointer, here 12 px
hitTestKeyRefHandle(mouse, model, c) ==
  LET positions == KeyRefHandlePositions(model)
      At(h) == toScreen(Pt(h.x, h.y), c)
      Near(h) == (mouse.x - At(h).x) * (mouse.x - At(h).x)
                   + (mouse.y - At(h).y) * (mouse.y - At(h).y) <= 1200 * 1200
      k == FirstIndex(positions, Near)
  IN IF k = 0 THEN Null
     ELSE [key |-> positions[k].key, isSecondary |-> positions[k].isSecondary]

\* how many polylines are drawn, how many points a polyline in progress gets,
\* how often a drag moves something and how many pan gestures start
MaxPolylines == 2

MaxPoints == 2

MaxDrags == 1

MaxPans == 2

\* offsetX, offsetY of the mouse events: over the front sheet, and at the
\* world points (2000, 0) and (3000, 0), an end and the middle of the line
EnginePointers == {Pt(5000, 4400), Pt(7000, 5000), Pt(8000, 5000)}

\* the polyline on the canvas at the start
DrawnLine == <<Pt(2000, 0), Pt(4000, 0)>>

\* the variables the engine's listeners leave alone
engineRest == <<objs, enabled, lastSnap, cacheKey, cache, snapRes, vpt, app, frames,
                rotAnimRaf, rotRaf, viewRotationDeg, viewRotationDegNorm, wheelLock,
                panning, lastZoom, lastTick, toolVars, call, editorVars>>

\* the engine as the tools' handlers take it
Cur == Engine(state, arrays, selectTool, lineTool)

\* the engine after a listener has run
EngineStep(op, e, calls, g, c) ==
  /\ state' = e.state
  /\ arrays' = e.arrays
  /\ selectTool' = e.selectTool
  /\ lineTool' = e.lineTool
  /\ toolCalls' = calls
  /\ gesture' = g
  /\ cvp' = c
  /\ lastOp' = op
  /\ UNCHANGED engineRest

\* what a pan gesture is held against once its click has been handled
Snapshot ==
  [polylines |-> state.polylines, arrays |-> arrays,
   selectedSegments |-> state.selectedSegments, current |-> lineTool,
   activeViewId |-> state.activeViewId]

\* the mouse button is up and no click event is pending
ButtonUp == gesture.phase \in {"idle", "panDone"}

\* the mouse button is down
ButtonDown == gesture.phase \in {"down", "pan"}

\* the handlers a pan gesture has invoked, h among them from now on
Called(h) == IF gesture.phase \in {"pan", "panUp"} THEN toolCalls \cup {h} ELSE toolCalls

\* the gesture once an event has followed the click of a pan gesture
Over(g) == IF g.phase = "panDone" THEN [phase |-> "idle", before |-> Null] ELSE g

\* a key press ends the sequence of events that counts as a pan gesture
Interrupted(g) == IF g.phase = "pan" THEN [phase |-> "down", before |-> Null] ELSE Over(g)

\* canvasEl 'mousemove' at offsetX, offsetY = p
MouseMove(p) ==
  LET st == [state EXCEPT !.mouse = p]
      worldMouse == toWorld(p, cvp)
      snap == findSnap(worldMouse, arrays, state.polylines, currentToolId, lineTool)
      snapped == [st EXCEPT !.snapPoint = snap.snapPoint, !.snapType = snap.snapType]
      e == Engine(snapped, arrays, selectTool, lineTool)
      g == Over(gesture)
      drags == \/ st.draggingKeyRef # Null
               \/ currentToolId = "select" /\ selectTool.isDragging
               \/ currentToolId = "select" /\ selectTool.activeHandle # Null
  IN /\ gesture.phase \notin {"up", "panUp"}
     /\ IF st.panning /\ st.panStart # Null
        THEN /\ EngineStep("mousemove", Engine(st, arrays, selectTool, lineTool), toolCalls,
                           g,
                           [cvp EXCEPT !.ox = st.panStart.offsetX + (p.x - st.panStart.screenX),
                                       !.oy = st.panStart.offsetY + (p.y - st.panStart.screenY)])
             /\ UNCHANGED edits
        ELSE IF st.draggingKeyRef # Null
        THEN /\ edits < MaxDrags
             /\ edits' = edits + 1
             /\ EngineStep("mousemove",
                           Engine([st EXCEPT !.keyRefModel =
                                     applyKeyRefDrag(st.draggingKeyRef.key, worldMouse, @)],
                                  arrays, selectTool, lineTool),
                           toolCalls, g, cvp)
        ELSE IF currentToolId = "select"
        THEN /\ drags => edits < MaxDrags
             /\ edits' = IF drags THEN edits + 1 ELSE edits
             /\ EngineStep("mousemove", SelectOnMouseMove(e, worldMouse),
                           Called("onMouseMove"), g, cvp)
        ELSE /\ EngineStep("mousemove", e, toolCalls, g, cvp)
             /\ UNCHANGED edits
     /\ UNCHANGED <<currentToolId, spaceDown, events>>

\* canvasEl 'mousedown' with button 0, at the pointer's place
MouseDown ==
  LET worldMouse == toWorld(state.mouse, cvp)
      handleHit == hitTestKeyRefHandle(state.mouse, state.keyRefModel, cvp)
  IN /\ ButtonUp
     /\ IF spaceDown
        THEN /\ events < MaxPans
             /\ events' = events + 1
             /\ EngineStep("mousedown",
                           [Cur EXCEPT !.state.panning = TRUE,
                                       !.state.panStart =
                                          [screenX |-> state.mouse.x, screenY |-> state.mouse.y,
                                           offsetX |-> cvp.ox, offsetY |-> cvp.oy]],
                           {}, [phase |-> "pan", before |-> Snapshot], cvp)
        ELSE /\ UNCHANGED events
             /\ IF handleHit # Null
                THEN EngineStep("mousedown", [Cur EXCEPT !.state.draggingKeyRef = handleHit],
                                {}, [phase |-> "down", before |-> Null], cvp)
                ELSE IF currentToolId = "select"
                THEN EngineStep("mousedown", SelectOnMouseDown(Cur, worldMouse),
                                {}, [phase |-> "down", before |-> Null], cvp)
                ELSE EngineStep("mousedown", Cur, {}, [phase |-> "down", before |-> Null], cvp)
     /\ UNCHANGED <<currentToolId, spaceDown, edits>>

\* endPanOrKeyRefDrag(): the state after it and what it returns
endPanOrKeyRefDrag(st) ==
  IF st.panning THEN [state |-> [st EXCEPT !.panning = FALSE, !.panStart = Null], ret |-> TRUE]
  ELSE IF st.draggingKeyRef # Null
  THEN [state |-> [st EXCEPT !.draggingKeyRef = Null], ret |-> TRUE]
  ELSE [state |-> st, ret |-> FALSE]

\* canvasEl 'mouseup'; the listener of window that the event reaches next
\* finds nothing left to end
MouseUp ==
  LET ended == endPanOrKeyRefDrag(state)
      after == [phase |-> IF gesture.phase = "pan" THEN "panUp" ELSE "up",
                before |-> gesture.before]
  IN /\ ButtonDown
     /\ IF ended.ret
        THEN EngineStep("mouseup", [Cur EXCEPT !.state = ended.state], toolCalls, after, cvp)
        ELSE IF currentToolId = "select"
        THEN EngineStep("mouseup", SelectOnMouseUp(Cur).e, Called("onMouseUp"),
                        after, cvp)
        ELSE EngineStep("mouseup", Cur, toolCalls, after, cvp)
     /\ UNCHANGED <<currentToolId, spaceDown, edits, events>>

\* the button is released outside the canvas: window 'mouseup' alone runs,
\* and no click event follows on the canvas
MouseUpOutside ==
  /\ ButtonDown
  /\ EngineStep("mouseupOutside", [Cur EXCEPT !.state = endPanOrKeyRefDrag(state).state],
                toolCalls, [phase |-> "idle", before |-> Null], cvp)
  /\ UNCHANGED <<currentToolId, spaceDown, edits, events>>

\* a click of the line tool keeps within the bounds of the model: it closes
\* the loop into one more polyline or adds one more point
LineClickAllowed ==
  IF /\ Len(lineTool) >= 2
     /\ state.snapPoint # Null
     /\ distance(state.snapPoint, lineTool[1]) < InWorld(CLOSE_LOOP_THRESHOLD)
  THEN Len(arrays) < MaxPolylines
  ELSE Len(lineTool) < MaxPoints

\* canvasEl 'click', the event that follows a mouseup on the canvas
Click(shiftKey) ==
  LET worldMouse == toWorld(state.mouse, cvp)
      clicked == IF currentToolId = "select" THEN SelectOnClick(Cur, shiftKey)
                 ELSE [e |-> LineOnClick(Cur, worldMouse), ret |-> TRUE]
      hit == hitTestSheet(worldMouse)
      e == clicked.e
      after == IF gesture.phase = "panUp" THEN [gesture EXCEPT !.phase = "panDone"]
               ELSE [phase |-> "idle", before |-> Null]
  IN /\ gesture.phase \in {"up", "panUp"}
     /\ currentToolId = "line" => LineClickAllowed
     /\ IF clicked.ret \/ e.state.panning \/ hit = "" \/ hit = e.state.activeViewId
        THEN EngineStep("click", e, Called("onClick"), after, cvp)
        ELSE EngineStep("click", [e EXCEPT !.state.activeViewId = hit],
                        Called("onClick"), after, cvp)
     /\ UNCHANGED <<currentToolId, spaceDown, edits, events>>

\* setTool(id) of the toolbar buttons: the line tool's deactivate empties
\* current, the select tool has neither activate nor deactivate
SetTool(id) ==
  /\ ButtonUp
  /\ id # currentToolId
  /\ currentToolId' = id
  /\ EngineStep("setTool", [Cur EXCEPT !.lineTool = IF currentToolId = "line" THEN <<>> ELSE @],
                toolCalls, Over(gesture), cvp)
  /\ UNCHANGED <<spaceDown, edits, events>>

\* window 'keydown' of Escape
KeyDownEscape ==
  /\ gesture.phase \notin {"up", "panUp"}
  /\ Len(lineTool) >= 2 => Len(arrays) < MaxPolylines
  /\ IF Len(lineTool) >= 2
     THEN /\ EngineStep("escape",
                        [Cur EXCEPT !.state.polylines = Append(@, Len(arrays) + 1),
                                    !.arrays = Append(@, lineTool),
                                    !.lineTool = <<>>],
                        toolCalls, Interrupted(gesture), cvp)
          /\ UNCHANGED currentToolId
     ELSE IF Len(lineTool) = 1
     THEN /\ EngineStep("escape", [Cur EXCEPT !.lineTool = <<>>], toolCalls,
                        Interrupted(gesture), cvp)
          /\ UNCHANGED currentToolId
     ELSE IF Len(state.selectedSegments) > 0
     THEN /\ EngineStep("escape", [Cur EXCEPT !.state.selectedSegments = <<>>], toolCalls,
                        Interrupted(gesture), cvp)
          /\ UNCHANGED currentToolId
     ELSE /\ EngineStep("escape", Cur, toolCalls, Interrupted(gesture), cvp)
          /\ currentToolId' = IF currentToolId = "line" THEN "select" ELSE currentToolId
  /\ UNCHANGED <<spaceDown, edits, events>>

\* window 'keydown' of Delete or Backspace with a selection
KeyDownDelete ==
  LET Kept(id) == \A k \in 1..Len(state.selectedSegments) :
                     state.selectedSegments[k].polyline # id
  IN /\ gesture.phase \notin {"up", "panUp"}
     /\ Len(state.selectedSegments) > 0
     /\ EngineStep("delete",
                   [Cur EXCEPT !.state.polylines = SelectSeq(@, Kept),
                               !.state.selectedSegments = <<>>],
                   toolCalls, Interrupted(gesture), cvp)
     /\ UNCHANGED <<currentToolId, spaceDown, edits, events>>

\* the core page with a line drawn from (2000, 0) to (4000, 0), the select
\* tool chosen and the pointer moved over the front sheet: mousemove has
\* set state.mouse, findSnap has found the grid point next to it and the
\* select tool nothing under it.  Space is held or not.
EngineStarted(space) ==
  /\ objs = <<>>
  /\ edits = 0
  /\ enabled = TRUE
  /\ lastSnap = NoCand
  /\ cacheKey = <<>>
  /\ cache = EmptyCache
  /\ vpt = IdentityVpt
  /\ snapRes = NoRes
  /\ lastOp = "mousemove"
  /\ app = "core"
  /\ ViewInit
  /\ ToolInit
  /\ EditorStarted
  /\ call = NoCall
  /\ LET p == Pt(5000, 4400)
         snap == findSnap(toWorld(p, InitialCvp), <<DrawnLine>>, <<1>>, "select", <<>>)
     IN state = [polylines |-> <<1>>, selectedSegments |-> <<>>, mouse |-> p,
                 snapPoint |-> snap.snapPoint, snapType |-> snap.snapType,
                 panning |-> FALSE, panStart |-> Null, draggingKeyRef |-> Null,
                 keyRefModel |-> InitialKeyRefModel, activeViewId |-> "plan"]
  /\ arrays = <<DrawnLine>>
  /\ selectTool = IdleSelectTool
  /\ lineTool = <<>>
  /\ currentToolId = "select"
  /\ spaceDown = space
  /\ toolCalls = {}
  /\ gesture = [phase |-> "idle", before |-> Null]

\* the select tool at work: the pointer moves, presses, releases on the
\* canvas or outside it and clicks, and Escape and Delete are pressed
InitSelect == EngineStarted(FALSE)

NextSelect ==
  \/ \E p \in EnginePointers : MouseMove(p)
  \/ MouseDown
  \/ MouseUp
  \/ MouseUpOutside
  \/ \E shiftKey \in BOOLEAN : Click(shiftKey)
  \/ KeyDownEscape
  \/ KeyDownDelete

SpecSelect == InitSelect /\ [][NextSelect]_vars

\* panning with Space held throughout, the select or the line tool chosen
InitPanning == EngineStarted(TRUE)

NextPanning ==
  \/ \E p \in EnginePointers : MouseMove(p)
  \/ MouseDown
  \/ MouseUp
  \/ MouseUpOutside
  \/ \E shiftKey \in BOOLEAN : Click(shiftKey)
  \/ \E id \in {"select", "line"} : SetTool(id)
  \/ KeyDownEscape
  \/ KeyDownDelete

SpecPanning == InitPanning /\ [][NextPanning]_vars

(* ----------------------- the selection and the polylines --------------- *)

\* whether the polyline id is in state.polylines
IsDrawn(id) == \E i \in 1..Len(state.polylines) : state.polylines[i] = id

\* C26: every entry of state.selectedSegments refers to a polyline that is
\* in state.polylines, after any sequence of mouse moves, clicks, box
\* selections, drags and Delete, Backspace and Escape key presses.
C26_SelectedAreDrawn ==
  \A k \in 1..Len(state.selectedSegments) : IsDrawn(state.selectedSegments[k].polyline)

(* ----------------------- the modes of the select tool ------------------ *)

\* the interaction modes of the select tool that are active
ActiveModes ==
  {m \in {"handle", "drag", "box"} :
     \/ m = "handle" /\ selectTool.activeHandle # Null
     \/ m = "drag" /\ selectTool.isDragging
     \/ m = "box" /\ selectTool.isSelecting}

\* C30: at most one of the select tool's three interaction modes is active
\* at any time (activeHandle set, isDragging, isSelecting), also when a
\* mouseup is not delivered to the canvas.
C30_AtMostOneMode == Cardinality(ActiveModes) <= 1

(* ----------------------------- the pan gesture -------------------------- *)

\* C29: a space-held pan gesture (mousedown with Space down, mouse moves,
\* mouseup and the click that follows it) changes only the viewport offset:
\* it invokes none of the tool's onMouseDown, onMouseUp and onClick, adds no
\* point to a polyline in progress and leaves the polylines, the selection
\* and the active view as they were.
C29_PanChangesOffsetOnly ==
  gesture.phase = "panDone" =>
    /\ toolCalls \cap {"onMouseDown", "onMouseUp", "onClick"} = {}
    /\ Snapshot = gesture.before

====
